---- MODULE Spec2Model ----
(***************************************************************************)
(* Auth session manager of the release-agent UI                            *)
(* (src/src/app/context/AuthContext.tsx, token storage in                   *)
(* src/src/app/api/types.ts, HTTP wrapper in src/src/app/api/client.ts).    *)
(*                                                                         *)
(* JavaScript values are represented as tuples so that every value can be  *)
(* compared with null:                                                     *)
(*   - a string is a sequence; a token is a sequence of characters (so     *)
(*     that trim() is computed), a message is a sequence of opaque chunks;  *)
(*   - null / undefined is the tuple Null;                                 *)
(*   - an AuthUser {login, source} is the pair <<login, source>>;          *)
(*   - an AuthCacheEntry is the triple <<token, user, checkedAt>>, with    *)
(*     checkedAt a pair <<typeof, value>>.                                 *)
(***************************************************************************)
EXTENDS Integers, Sequences, FiniteSets, TLC

VARIABLES
  envApiBaseUrl,   \* import.meta.env.VITE_API_BASE_URL (fixed at build time)
  envProbe,        \* import.meta.env.VITE_AUTH_PROBE_ACCESS_DISABLED
  lsAuthToken,     \* localStorage['release-agent.auth-token']
  lsLegacyToken,   \* localStorage['release-agent.github-token']
  lsAuthCache,     \* localStorage['release-agent.auth-user-cache'] (raw text)
  hash,            \* window.location.hash, as its parameters
  status,          \* React state of AuthProvider
  user,
  error,
  pc,              \* position of boot: mount, probe, verify, done, away
  bootToken,       \* the const `token` captured by boot's closure
  now,             \* Date.now()
  ticks,           \* number of clock advances so far
  loads,           \* number of page loads so far
  netRequests,     \* fetch() calls issued since the page was loaded
  redirects,       \* window.location.assign() calls since the page was loaded
  last,            \* the operation that produced the current state
  lastResp,        \* the outcome of requestJson applied by the last response
  provisional,     \* boot set the cached identity before verification
  bootHash,        \* the fragment this load's boot ran on
  applied,         \* <<token stored from the fragment, error surfaced>> by boot
  prevApplied,     \* the same for the previous page load
  reloaded,        \* this load is a plain reload of the previous page
  stSessions,      \* SessionProvider: React state `sessions`
  stIsLoading,     \* SessionProvider: React state `isLoading`
  stError,         \* SessionProvider: React state `error`
  stInterval,      \* SessionProvider: the 5 s poll interval is installed
  stRefreshes,     \* the refresh() runs in flight
  stPolls,         \* the poll ticks in flight
  stCreates,       \* the createSession() calls in flight
  stNow,           \* Date.now() as the session store reads it
  stOps,           \* operations started on the store since its mount
  stLast,          \* the store operation that produced the current state
  stIssued,        \* the requests issued by that operation
  stOutcome,       \* the outcome of requestJson applied by that operation
  clProduct,       \* IssueClustersPage: React state `selectedProduct`
  clClusters,      \* React state `clusters`
  clTruncated,     \* React state `clustersTruncated`
  clLimit,         \* React state `clusterFetchLimit`
  clTopIssues,     \* React state `topIssues`
  clError,         \* React state `error`
  clClustersLoading, \* React state `isClustersLoading`
  clTopLoading,    \* React state `isTopIssuesLoading`
  clClustersCache, \* clustersCacheRef.current
  clTopCache,      \* topIssuesCacheRef.current
  clClustersReqId, \* clustersRequestIdRef.current
  clTopReqId,      \* topIssuesRequestIdRef.current
  clInFlight,      \* the cluster and top-issue requests awaited
  clSelects,       \* selections and clicks made so far
  clRepo,          \* `repo` of RepoProvider
  clVersion,       \* React state `selectedVersion`
  clVersionStored, \* whether localStorage holds a selected version
  clIsLoading,     \* React state `isLoading`
  clBoots,         \* the runs of the effect on [api, repo]
  clLast,          \* the page operation that produced the current state
  clHandled,       \* <<kind, requestId, outcome>> of the response it handled
  rsSearch,        \* RefSearchCombobox: React state `search`
  rsCommits,       \* React state `commits`
  rsLoading,       \* React state `loading`
  rsTimer,         \* the pending debounce timer and the text it captured
  rsRepo,          \* the `repo` prop of the combobox
  rsQueries,       \* the queries of the commit searches issued, in order
  rsRepos,         \* the repository each of them was made for
  rsOutcomes,      \* how each of them ended, "pending" while awaited
  rsTypes,         \* edits of the search text so far
  rsLast,          \* the combobox operation that produced the current state
  rsHandled,       \* the search whose response it handled, 0 if none
  rnSections,      \* ReleaseNotesPage: React state `sections`
  rnIsLoading,     \* React state `isLoading`
  rnError,         \* React state `error`
  rnSaving,        \* React state `savingItems`
  rnExcluding,     \* React state `excludingItems`
  rnBackend,       \* the sections of the artifact the backend holds
  rnRefresh,       \* refresh() awaits the artifact: idle, pending
  rnPatches,       \* the patches issued, in order, with their progress
  rnOps,           \* user operations on the page so far
  rnLast,          \* the page operation that produced the current state
  rnHandled,       \* <<patch, outcome>> of the response it handled
  rnBefore,        \* the sections held when that response arrived
  rnRegenerating,  \* React state `regeneratingItems`
  rnRegens,        \* the regenerations started, with their timers and polls
  idParam,         \* IssueDetailPage: the route parameter `issueNumber`
  idQuery,         \* the `repo` parameter of the query string
  idCurrentRepo,   \* the repo of RepoContext
  idDetail,        \* React state `detail`
  idIsLoading,     \* React state `isLoading`
  idError,         \* React state `error`
  idNotFound,      \* React state `notFound`
  idLoads,         \* the load() calls made, with the issue each asked for
  idNavs,          \* route and repo changes so far
  idLast,          \* the page operation that produced the current state
  idHandled        \* <<load, outcome>> of the response it handled

authVars == <<envProbe, lsAuthToken, lsLegacyToken, lsAuthCache,
              hash, status, user, error, pc, bootToken, now, ticks, loads,
              netRequests, redirects, last, lastResp, provisional, bootHash,
              applied, prevApplied, reloaded>>

storeVars == <<stSessions, stIsLoading, stError, stInterval, stRefreshes,
               stPolls, stCreates, stNow, stOps, stLast, stIssued,
               stOutcome>>

clustersVars == <<clProduct, clClusters, clTruncated, clLimit, clTopIssues,
                  clError, clClustersLoading, clTopLoading, clClustersCache,
                  clTopCache, clClustersReqId, clTopReqId, clInFlight,
                  clSelects, clRepo, clVersion, clVersionStored, clIsLoading,
                  clBoots, clLast, clHandled>>

searchVars == <<rsSearch, rsCommits, rsLoading, rsTimer, rsRepo, rsQueries, rsRepos,
                rsOutcomes, rsTypes, rsLast, rsHandled>>

notesVars == <<rnSections, rnIsLoading, rnError, rnSaving, rnExcluding,
               rnBackend, rnRefresh, rnPatches, rnOps, rnLast, rnHandled,
               rnBefore, rnRegenerating, rnRegens>>

\* what the handlers other than regenerateItem leave alone
regenVars == <<rnRegenerating, rnRegens>>

detailVars == <<idParam, idQuery, idCurrentRepo, idDetail, idIsLoading, idError, idNotFound, idLoads,
                idNavs, idLast, idHandled>>

\* the state of the components below the auth gate
pageVars == <<storeVars, clustersVars, searchVars, notesVars, detailVars>>

\* what the session store leaves alone
outsideStore == <<envApiBaseUrl, authVars, clustersVars, searchVars, notesVars,
                  detailVars>>

\* what the issue-clusters page leaves alone
outsideClusters == <<envApiBaseUrl, authVars, storeVars, searchVars, notesVars,
                     detailVars>>

\* what the ref search combobox leaves alone
outsideSearch == <<envApiBaseUrl, authVars, storeVars, clustersVars, notesVars,
                   detailVars>>

\* what the release-notes page leaves alone
outsideNotes == <<envApiBaseUrl, authVars, storeVars, clustersVars, searchVars,
                  detailVars>>

\* what the issue detail page leaves alone
outsideDetail == <<envApiBaseUrl, authVars, storeVars, clustersVars, searchVars,
                   notesVars>>

vars == <<envApiBaseUrl, authVars, pageVars>>

envVars == <<envApiBaseUrl, envProbe>>
storageVars == <<lsAuthToken, lsLegacyToken, lsAuthCache>>
reactVars == <<status, user, error>>
clockVars == <<now, ticks>>
fragmentVars == <<bootHash, applied, prevApplied, reloaded>>

----------------------------------------------------------------------------
(* Bounds *)

MaxTicks == 3
MaxLoads == 2

----------------------------------------------------------------------------
(* Values *)

Null == <<"null">>
SP == " "

AUTH_CACHE_TTL_MS == 5 * 60 * 1000

RECURSIVE trimStart(_)
trimStart(s) == IF s # <<>> /\ Head(s) = SP THEN trimStart(Tail(s)) ELSE s

RECURSIVE trimEnd(_)
trimEnd(s) ==
  IF s # <<>> /\ s[Len(s)] = SP THEN trimEnd(SubSeq(s, 1, Len(s) - 1)) ELSE s

\* String.prototype.trim
trim(s) == trimEnd(trimStart(s))

\* JavaScript truthiness of a string-or-null value
truthy(s) == s # Null /\ s # <<>>

toLowerCase(s) ==
  IF s = <<"TRUE">> \/ s = <<"True">> THEN <<"true">>
  ELSE IF s = <<"FALSE">> THEN <<"false">>
  ELSE s

AuthUser(login, source) == <<login, source>>
AuthCacheEntry(token, u, checkedAt) == <<token, u, <<"number", checkedAt>>>>

\* JSON.stringify / JSON.parse on the cache entry
JSONstringify(entry) == <<"json", entry>>
JSONparse(raw) == IF raw[1] = "json" THEN raw[2] ELSE <<"throw">>

----------------------------------------------------------------------------
(* Environment configuration *)

getApiBaseUrlNoTrim(env) ==
  IF env # Null /\ Len(env) > 0 THEN env ELSE Null

getApiBaseUrl(env) ==
  LET apiBaseUrl == IF env = Null THEN Null ELSE trim(env)
  IN IF apiBaseUrl # Null /\ Len(apiBaseUrl) > 0 THEN apiBaseUrl ELSE Null

probeAccessDisabledAlways(env) == TRUE

probeAccessDisabled(env) ==
  toLowerCase(IF env = Null THEN <<"false">> ELSE env) = <<"true">>

----------------------------------------------------------------------------
(* Token storage (src/src/app/api/types.ts) *)

getStoredAuthToken(primary, legacy) ==
  LET token == IF primary # Null THEN primary ELSE legacy
  IN IF token = Null \/ token = <<>> \/ Len(trim(token)) = 0 THEN Null
     ELSE trim(token)

setStoredAuthTokenKeepsLegacy(token) == <<trim(token), lsLegacyToken>>

\* <<primary, legacy>> after setStoredAuthToken(token)
setStoredAuthToken(token) == <<trim(token), Null>>

clearStoredAuthTokenKeepsLegacy == <<Null, lsLegacyToken>>

\* <<primary, legacy>> after clearStoredAuthToken()
clearStoredAuthToken == <<Null, Null>>

----------------------------------------------------------------------------
(* OAuth fragment *)

NoFragment == <<>>

\* <<ra_token, ra_error>>
readOAuthFragment(h) ==
  IF h = NoFragment THEN <<Null, Null>> ELSE <<h[1], h[2]>>

clearOAuthHashFragmentKeepsHash == hash

\* window.history.replaceState(null, '', pathname + search)
clearOAuthHashFragment == NoFragment

----------------------------------------------------------------------------
(* Auth cache *)

readAuthCacheNoTokenCheck(token, raw, t) ==
  IF raw = Null \/ raw = <<>> THEN Null
  ELSE LET parsed == JSONparse(raw)
       IN IF parsed = <<"throw">> THEN Null
          ELSE IF parsed = Null THEN Null
          ELSE IF parsed[3][1] # "number" THEN Null
          ELSE IF t - parsed[3][2] > AUTH_CACHE_TTL_MS THEN Null
          ELSE IF parsed[2] = Null \/ parsed[2][1] = Null \/ parsed[2][2] = Null
            THEN Null
          ELSE parsed[2]

readAuthCacheStrictTtl(token, raw, t) ==
  IF raw = Null \/ raw = <<>> THEN Null
  ELSE LET parsed == JSONparse(raw)
       IN IF parsed = <<"throw">> THEN Null
          ELSE IF parsed = Null \/ parsed[1] # token THEN Null
          ELSE IF parsed[3][1] # "number" THEN Null
          ELSE IF t - parsed[3][2] >= AUTH_CACHE_TTL_MS THEN Null
          ELSE IF parsed[2] = Null \/ parsed[2][1] = Null \/ parsed[2][2] = Null
            THEN Null
          ELSE parsed[2]

readAuthCacheNoTtl(token, raw, t) ==
  IF raw = Null \/ raw = <<>> THEN Null
  ELSE LET parsed == JSONparse(raw)
       IN IF parsed = <<"throw">> THEN Null
          ELSE IF parsed = Null \/ parsed[1] # token THEN Null
          ELSE IF parsed[3][1] # "number" THEN Null
          ELSE IF parsed[2] = Null \/ parsed[2][1] = Null \/ parsed[2][2] = Null
            THEN Null
          ELSE parsed[2]

\* readAuthCache(token), with the raw stored text and Date.now() as arguments
readAuthCache(token, raw, t) ==
  IF raw = Null \/ raw = <<>> THEN Null
  ELSE LET parsed == JSONparse(raw)
       IN IF parsed = <<"throw">> THEN Null
          ELSE IF parsed = Null \/ parsed[1] # token THEN Null
          ELSE IF parsed[3][1] # "number" THEN Null
          ELSE IF t - parsed[3][2] > AUTH_CACHE_TTL_MS THEN Null
          ELSE IF parsed[2] = Null \/ parsed[2][1] = Null \/ parsed[2][2] = Null
            THEN Null
          ELSE parsed[2]

\* the raw text stored by writeAuthCache(token, user) at time t
writeAuthCache(token, u, t) == JSONstringify(AuthCacheEntry(token, u, t))

clearAuthCacheKeepsEntry == lsAuthCache

\* the raw text left by clearAuthCache()
clearAuthCache == Null

----------------------------------------------------------------------------
(* Backend and HTTP wrapper *)

TokenA == <<"a">>
TokenB == <<"b">>

\* the login the backend knows a bearer token by
LoginOf(token) == IF token = TokenA THEN <<"alice">> ELSE <<"bob">>

Sources == {<<"community-md">>, <<"extra-allowlist">>}
ACCESS_CONTROL_DISABLED == <<"access-control-disabled">>

\* an HTTP response <<"response", ok, status, statusText, body.message, body>>
\* or a rejected fetch <<"reject", message>>
Response(ok, st, text, msg, body) == <<"response", ok, st, text, msg, body>>

FailureResponses ==
  { Response(FALSE, "401", "Unauthorized", Null, Null),
    Response(FALSE, "403", "Forbidden", <<"Not a community member">>, Null),
    <<"reject", <<"Failed to fetch">>>> }

\* what GET /auth/me may answer to a bearer token
AuthMeResponses(token) ==
  { Response(TRUE, "200", "OK", Null, AuthUser(LoginOf(token), s)) : s \in Sources }
    \cup FailureResponses

\* what GET /auth/me may answer without credentials
ProbeResponses ==
  { Response(TRUE, "200", "OK", Null, AuthUser(<<"anonymous">>, ACCESS_CONTROL_DISABLED)),
    Response(TRUE, "200", "OK", Null, AuthUser(<<"guest">>, <<"community-md">>)) }
    \cup FailureResponses

\* requestJson: <<"ok", body>> or <<"throw", error>>, an error being
\* <<"error", message>>
requestJson(res) ==
  IF res[1] = "reject" THEN <<"throw", <<"error", res[2]>>>>
  ELSE IF ~res[2]
    THEN LET message == IF res[5] # Null THEN res[5] ELSE <<res[3], res[4]>>
         IN <<"throw", <<"error", message>>>>
  ELSE <<"ok", res[6]>>

\* e?.message ?? 'Authentication failed'
failureMessage(e) ==
  IF e = Null \/ e[2] = Null THEN <<"Authentication failed">> ELSE e[2]

MISSING_BASE_URL == <<"Missing VITE_API_BASE_URL">>

\* verifyToken: throws without a base URL, otherwise issues the request
verifyToken(api) == IF api = Null THEN "throw" ELSE "request"

----------------------------------------------------------------------------
(* Initial states: a fresh page load over whatever an earlier visit left    *)
(* in localStorage.                                                         *)

Fragments ==
  { NoFragment,
    <<TokenA, Null>>,
    <<<<SP, "b", SP>>, Null>>,
    <<<<SP>>, Null>>,
    <<Null, <<"access_denied">>>>,
    <<Null, <<>>>> }

StoredCaches ==
  { Null,
    <<"garbage">>,
    JSONstringify(Null),
    JSONstringify(AuthCacheEntry(TokenA, AuthUser(LoginOf(TokenA), <<"community-md">>), 0)),
    JSONstringify(<<TokenA, Null, <<"number", 0>>>>),
    JSONstringify(<<TokenA, AuthUser(LoginOf(TokenA), <<"community-md">>), <<"undefined", 0>>>>) }

StoredTokens == { <<Null, Null>>, <<TokenA, Null>>, <<Null, <<SP, "b">>>> }

\* nothing below the auth gate is mounted
StoreUnmounted ==
  /\ stSessions = <<>>
  /\ stIsLoading = FALSE
  /\ stError = Null
  /\ stInterval = FALSE
  /\ stRefreshes = <<>>
  /\ stPolls = <<>>
  /\ stCreates = <<>>
  /\ stNow = 0
  /\ stOps = 0
  /\ stLast = "unmounted"
  /\ stIssued = {}
  /\ stOutcome = Null

CLUSTER_PAGE_LIMIT == 120

ClustersUnmounted ==
  /\ clProduct = Null
  /\ clClusters = <<>>
  /\ clTruncated = FALSE
  /\ clLimit = CLUSTER_PAGE_LIMIT
  /\ clTopIssues = <<>>
  /\ clError = Null
  /\ clClustersLoading = FALSE
  /\ clTopLoading = FALSE
  /\ clClustersCache = <<>>
  /\ clTopCache = <<>>
  /\ clClustersReqId = 0
  /\ clTopReqId = 0
  /\ clInFlight = {}
  /\ clSelects = 0
  /\ clRepo = <<"microsoft/PowerToys">>
  /\ clVersion = Null
  /\ clVersionStored = FALSE
  /\ clIsLoading = FALSE
  /\ clBoots = <<>>
  /\ clLast = "unmounted"
  /\ clHandled = Null

SearchUnmounted ==
  /\ rsSearch = <<>>
  /\ rsCommits = <<>>
  /\ rsLoading = FALSE
  /\ rsTimer = Null
  /\ rsRepo = <<"microsoft/PowerToys">>
  /\ rsRepos = <<>>
  /\ rsQueries = <<>>
  /\ rsOutcomes = <<>>
  /\ rsTypes = 0
  /\ rsLast = "unmounted"
  /\ rsHandled = 0

NoteItem(id, kind, text, excluded) ==
  [id |-> id, text |-> text, source |-> kind, excluded |-> excluded,
   status |-> "ready"]

\* the artifact the backend holds when the page is opened
InitialSections ==
  << [area |-> "core",
      items |-> <<NoteItem("x", "commit", "t0", FALSE),
                  NoteItem("y", "pr", "t0", FALSE)>>] >>

NotesUnmounted ==
  /\ rnSections = Null
  /\ rnIsLoading = FALSE
  /\ rnError = Null
  /\ rnSaving = {}
  /\ rnExcluding = {}
  /\ rnBackend = InitialSections
  /\ rnRefresh = "idle"
  /\ rnPatches = <<>>
  /\ rnOps = 0
  /\ rnLast = "unmounted"
  /\ rnHandled = <<0, "none">>
  /\ rnBefore = Null
  /\ rnRegenerating = {}
  /\ rnRegens = <<>>

DetailUnmounted ==
  /\ idParam = Null
  /\ idQuery = Null
  /\ idCurrentRepo = <<"microsoft/PowerToys">>
  /\ idDetail = Null
  /\ idIsLoading = FALSE
  /\ idError = Null
  /\ idNotFound = FALSE
  /\ idLoads = <<>>
  /\ idNavs = 0
  /\ idLast = "unmounted"
  /\ idHandled = <<0, "none">>

PagesUnmounted ==
  /\ StoreUnmounted
  /\ ClustersUnmounted
  /\ SearchUnmounted
  /\ NotesUnmounted
  /\ DetailUnmounted

Init ==
  /\ PagesUnmounted
  /\ envApiBaseUrl \in {Null, <<SP>>, <<"u">>}
  /\ envProbe \in {Null, <<"TRUE">>}
  /\ \E st \in StoredTokens : lsAuthToken = st[1] /\ lsLegacyToken = st[2]
  /\ lsAuthCache \in StoredCaches
  /\ hash \in Fragments
  /\ status = "checking"
  /\ user = Null
  /\ error = Null
  /\ pc = "mount"
  /\ bootToken = Null
  /\ now = 0
  /\ ticks = 0
  /\ loads = 1
  /\ netRequests = 0
  /\ redirects = 0
  /\ last = "init"
  /\ lastResp = Null
  /\ provisional = FALSE
  /\ bootHash = NoFragment
  /\ applied = <<Null, Null>>
  /\ prevApplied = <<Null, Null>>
  /\ reloaded = FALSE

\* the auth provider taken out of the picture: its variables stay at the
\* values a first visit starts from
AuthAside ==
  /\ envProbe = Null
  /\ lsAuthToken = Null
  /\ lsLegacyToken = Null
  /\ lsAuthCache = Null
  /\ hash = NoFragment
  /\ status = "checking"
  /\ user = Null
  /\ error = Null
  /\ pc = "mount"
  /\ bootToken = Null
  /\ now = 0
  /\ ticks = 0
  /\ loads = 1
  /\ netRequests = 0
  /\ redirects = 0
  /\ last = "init"
  /\ lastResp = Null
  /\ provisional = FALSE
  /\ bootHash = NoFragment
  /\ applied = <<Null, Null>>
  /\ prevApplied = <<Null, Null>>
  /\ reloaded = FALSE

----------------------------------------------------------------------------
(* boot, up to its first await (or to its return) *)

Boot ==
  /\ pc = "mount"
  /\ last' = "boot"
  /\ bootHash' = hash
  /\ UNCHANGED <<pageVars, envVars, clockVars, loads, redirects, lastResp, prevApplied, reloaded>>
  /\ LET apiBaseUrl == getApiBaseUrl(envApiBaseUrl) IN
     IF apiBaseUrl = Null
     THEN /\ status' = "unauthenticated"
          /\ error' = MISSING_BASE_URL
          /\ pc' = "done"
          /\ applied' = <<Null, Null>>
          /\ UNCHANGED <<storageVars, hash, user, bootToken, netRequests, provisional>>
     ELSE
       LET oauth == readOAuthFragment(hash)
           hasToken == truthy(oauth[1]) /\ truthy(trim(oauth[1]))
           hasError == truthy(oauth[2])
           stored == IF hasToken THEN setStoredAuthToken(trim(oauth[1]))
                     ELSE <<lsAuthToken, lsLegacyToken>>
           error1 == IF hasError THEN oauth[2] ELSE error
           token == getStoredAuthToken(stored[1], stored[2])
       IN
       /\ hash' = IF hasToken \/ hasError THEN clearOAuthHashFragment ELSE hash
       /\ applied' = <<IF hasToken THEN trim(oauth[1]) ELSE Null,
                       IF hasError THEN oauth[2] ELSE Null>>
       /\ IF token = Null
          THEN /\ IF probeAccessDisabled(envProbe)
                  THEN /\ pc' = "probe"
                       /\ netRequests' = netRequests + 1
                       /\ status' = status
                  ELSE /\ pc' = "done"
                       /\ netRequests' = netRequests
                       /\ status' = "unauthenticated"
               /\ error' = error1
               /\ lsAuthToken' = stored[1]
               /\ lsLegacyToken' = stored[2]
               /\ UNCHANGED <<lsAuthCache, user, bootToken, provisional>>
          ELSE
            LET cachedUser == readAuthCache(token, lsAuthCache, now) IN
            /\ bootToken' = token
            /\ provisional' = (cachedUser # Null)
            /\ IF verifyToken(apiBaseUrl) = "throw"
               THEN \* the catch clause runs without any request
                    /\ lsAuthToken' = clearStoredAuthToken[1]
                    /\ lsLegacyToken' = clearStoredAuthToken[2]
                    /\ lsAuthCache' = clearAuthCache
                    /\ user' = Null
                    /\ status' = "unauthenticated"
                    /\ error' = MISSING_BASE_URL
                    /\ pc' = "done"
                    /\ netRequests' = netRequests
               ELSE /\ lsAuthToken' = stored[1]
                    /\ lsLegacyToken' = stored[2]
                    /\ user' = IF cachedUser # Null THEN cachedUser ELSE user
                    /\ status' = IF cachedUser # Null THEN "authenticated" ELSE status
                    /\ error' = error1
                    /\ pc' = "verify"
                    /\ netRequests' = netRequests + 1
                    /\ UNCHANGED lsAuthCache

----------------------------------------------------------------------------
(* boot resumes after `await requestJson(apiBaseUrl, '/auth/me')` (probe) *)

ProbeResponseKeepsChecking ==
  /\ pc = "probe"
  /\ \E res \in ProbeResponses :
       LET r == requestJson(res) IN
       /\ lastResp' = r
       /\ IF r[1] = "ok" /\ r[2][2] = ACCESS_CONTROL_DISABLED
          THEN /\ user' = r[2]
               /\ status' = "authenticated"
               /\ error' = Null
          ELSE UNCHANGED <<status, user, error>>
  /\ pc' = "done"
  /\ last' = "probeResponse"
  /\ UNCHANGED <<pageVars, envVars, storageVars, hash, bootToken, clockVars, loads,
                 netRequests, redirects, provisional, fragmentVars>>

ProbeResponse ==
  /\ pc = "probe"
  /\ \E res \in ProbeResponses :
       LET r == requestJson(res) IN
       /\ lastResp' = r
       /\ IF r[1] = "ok" /\ r[2][2] = ACCESS_CONTROL_DISABLED
          THEN /\ user' = r[2]
               /\ status' = "authenticated"
               /\ error' = Null
          ELSE /\ status' = "unauthenticated"
               /\ UNCHANGED <<user, error>>
  /\ pc' = "done"
  /\ last' = "probeResponse"
  /\ UNCHANGED <<pageVars, envVars, storageVars, hash, bootToken, clockVars, loads,
                 netRequests, redirects, provisional, fragmentVars>>

----------------------------------------------------------------------------
(* boot resumes after `await verifyToken(token)` *)

\* the user set from a successful verification
verifiedUserKeepsCached(me) == IF user # Null THEN user ELSE me
verifiedUser(me) == me

VerifyResponse ==
  /\ pc = "verify"
  /\ \E res \in AuthMeResponses(bootToken) :
       LET r == requestJson(res) IN
       /\ lastResp' = r
       /\ IF r[1] = "ok"
          THEN /\ lsAuthCache' = writeAuthCache(bootToken, r[2], now)
               /\ user' = verifiedUser(r[2])
               /\ status' = "authenticated"
               /\ error' = Null
               /\ UNCHANGED <<lsAuthToken, lsLegacyToken>>
          ELSE /\ lsAuthToken' = clearStoredAuthToken[1]
               /\ lsLegacyToken' = clearStoredAuthToken[2]
               /\ lsAuthCache' = clearAuthCache
               /\ user' = Null
               /\ status' = "unauthenticated"
               /\ error' = failureMessage(r[2])
  /\ pc' = "done"
  /\ last' = "verifyResponse"
  /\ UNCHANGED <<pageVars, envVars, hash, bootToken, clockVars, loads, netRequests,
                 redirects, provisional, fragmentVars>>

----------------------------------------------------------------------------
(* Context callbacks *)

SignOutKeepsUser ==
  /\ pc \in {"probe", "verify", "done"}
  /\ lsAuthToken' = clearStoredAuthToken[1]
  /\ lsLegacyToken' = clearStoredAuthToken[2]
  /\ lsAuthCache' = clearAuthCache
  /\ status' = "unauthenticated"
  /\ error' = Null
  /\ last' = "signOut"
  /\ UNCHANGED <<pageVars, envVars, hash, user, pc, bootToken, clockVars, loads,
                 netRequests, redirects, lastResp, provisional, fragmentVars>>

SignOut ==
  /\ pc \in {"probe", "verify", "done"}
  /\ lsAuthToken' = clearStoredAuthToken[1]
  /\ lsLegacyToken' = clearStoredAuthToken[2]
  /\ lsAuthCache' = clearAuthCache
  /\ user' = Null
  /\ status' = "unauthenticated"
  /\ error' = Null
  /\ last' = "signOut"
  /\ UNCHANGED <<pageVars, envVars, hash, pc, bootToken, clockVars, loads, netRequests,
                 redirects, lastResp, provisional, fragmentVars>>

\* AuthGate renders the sign-in button only while status is 'unauthenticated'
SignInWithGithub ==
  /\ pc \in {"probe", "verify", "done"}
  /\ status = "unauthenticated"
  /\ IF getApiBaseUrl(envApiBaseUrl) = Null
     THEN /\ error' = MISSING_BASE_URL
          /\ UNCHANGED <<pc, redirects>>
     ELSE \* window.location.assign: the page is left
          /\ redirects' = redirects + 1
          /\ pc' = "away"
          /\ UNCHANGED error
  /\ last' = "signInWithGithub"
  /\ UNCHANGED <<pageVars, envVars, storageVars, hash, status, user, bootToken, clockVars,
                 loads, netRequests, lastResp, provisional, fragmentVars>>

----------------------------------------------------------------------------
(* Environment: the clock and page loads *)

Deltas == {1000, 299000}

Tick ==
  /\ ticks < MaxTicks
  /\ \E d \in Deltas : now' = now + d
  /\ ticks' = ticks + 1
  /\ last' = "tick"
  /\ UNCHANGED <<pageVars, envVars, storageVars, hash, reactVars, pc, bootToken, loads,
                 netRequests, redirects, lastResp, provisional, fragmentVars>>

\* what every page load resets: React state, the boot closure, the counters
FreshPage ==
  /\ status' = "checking"
  /\ user' = Null
  /\ error' = Null
  /\ pc' = "mount"
  /\ bootToken' = Null
  /\ netRequests' = 0
  /\ redirects' = 0
  /\ lastResp' = Null
  /\ provisional' = FALSE
  /\ bootHash' = NoFragment
  /\ applied' = <<Null, Null>>
  /\ loads' = loads + 1

\* the user reloads the page: same URL, pending responses are dropped
Reload ==
  /\ pc \in {"probe", "verify", "done"}
  /\ loads < MaxLoads
  /\ FreshPage
  /\ prevApplied' = applied
  /\ reloaded' = TRUE
  /\ last' = "reload"
  /\ UNCHANGED <<pageVars, envVars, storageVars, hash, clockVars>>

\* the browser arrives at the application with another fragment (the OAuth
\* provider redirecting back, a followed link)
Navigate ==
  /\ pc # "mount"
  /\ loads < MaxLoads
  /\ FreshPage
  /\ hash' \in Fragments
  /\ prevApplied' = <<Null, Null>>
  /\ reloaded' = FALSE
  /\ last' = "navigate"
  /\ UNCHANGED <<pageVars, envVars, storageVars, clockVars>>

Next ==
  \/ Boot
  \/ ProbeResponse
  \/ VerifyResponse
  \/ SignOut
  \/ SignInWithGithub
  \/ Tick
  \/ Reload
  \/ Navigate

Spec == Init /\ [][Next]_vars

\* the effect that runs boot is scheduled after the first render, and every
\* request boot awaits is assumed to complete
\* one page load: no clock step, no reload, no navigation
LoadNext ==
  \/ Boot
  \/ ProbeResponse
  \/ VerifyResponse
  \/ SignOut
  \/ SignInWithGithub

LiveSpec ==
  /\ Init
  /\ [][LoadNext]_vars
  /\ WF_vars(Boot)
  /\ WF_vars(ProbeResponse)
  /\ WF_vars(VerifyResponse)

----------------------------------------------------------------------------
(* Session store (src/src/app/context/RunContext.tsx) with the auto-refresh *)
(* of the sessions page (src/src/app/pages/SessionsPage.tsx).               *)
(*                                                                         *)
(* A Session is a record; its id is a tuple (<<"A">> for a backend id,      *)
(* <<"session-", t>> for a synthetic one); a Date is <<"date", t>>, an ISO  *)
(* string <<"iso", t>>; a job is <<id, status, startedAt, completedAt>>.    *)

\* user and timer operations started on the store after its mount
MaxOps == 2

\* (import.meta.env.VITE_API_BASE_URL)?.trim(), null when falsy
sessionApi ==
  IF envApiBaseUrl = Null THEN Null
  ELSE IF truthy(trim(envApiBaseUrl)) THEN trim(envApiBaseUrl) ELSE Null

parseDate(iso) ==
  IF iso = Null \/ iso = <<>> THEN Null
  ELSE IF iso[1] = "iso" THEN <<"date", iso[2]>>
  ELSE Null

ApiJob(id, st, startedAt, completedAt) == <<id, st, startedAt, completedAt>>

mapJob(job) == <<job[1], job[2], parseDate(job[3]), parseDate(job[4])>>

mapJobs(jobs) == [i \in 1..Len(jobs) |-> mapJob(jobs[i])]

ApiSession(id, st, name) ==
  [id |-> id, status |-> st, name |-> name, repoFullName |-> "microsoft/PowerToys",
   baseRef |-> "v1", headRef |-> "main", createdAt |-> <<"iso", 0>>]

mapSession(session, jobs) ==
  [id |-> session.id,
   repoFullName |-> session.repoFullName,
   name |-> session.name,
   status |-> session.status,
   baseRef |-> session.baseRef,
   headRef |-> session.headRef,
   createdAt |-> <<"date", session.createdAt[2]>>,
   jobs |-> mapJobs(jobs)]

SessA == <<"A">>
SessB == <<"B">>
SessC == <<"C">>
SessN == <<"N">>

\* what GET /sessions may answer
SessionLists ==
  { <<ApiSession(SessA, "generating", "a"), ApiSession(SessB, "ready", "b"),
      ApiSession(SessC, "generating", "c")>>,
    <<ApiSession(SessA, "ready", "a"), ApiSession(SessB, "ready", "b")>>,
    <<>> }

ListSessionsResponses ==
  { Response(TRUE, "200", "OK", Null, items) : items \in SessionLists }
    \cup { <<"reject", <<"Failed to fetch">>>> }

\* what GET /sessions/:id/jobs may answer
JobsRunning == <<ApiJob("j1", "running", <<"iso", 1>>, Null)>>
JobsCompleted == <<ApiJob("j1", "completed", <<"bad">>, <<"iso", 2>>)>>

\* the job lists the backend may hold for a session: the jobs of B, which
\* is ready, have completed; those of C, which keeps generating, are running
JobLists(id) ==
  IF id = SessB THEN {JobsCompleted}
  ELSE IF id = SessC THEN {JobsRunning}
  ELSE {JobsRunning, JobsCompleted}

ListJobsResponses(id) ==
  { Response(TRUE, "200", "OK", Null, items) : items \in JobLists(id) }
    \cup { Response(FALSE, "500", "Internal Server Error", Null, Null) }

\* the data of the create form
SessionSpecs ==
  { [name |-> "n", repoFullName |-> "microsoft/PowerToys", baseRef |-> "v2",
     headRef |-> "main"] }

\* the id the backend gives the k-th session it creates
createdIdOf(k) == IF k = 1 THEN SessN ELSE <<"N", k>>

\* the sessions the backend created that the store holds or is adding
backendCreated ==
  {stCreates[i].created.id : i \in {j \in 1..Len(stCreates) : stCreates[j].phase = "jobs"}}
    \cup {stSessions[n].id : n \in {m \in 1..Len(stSessions) : stSessions[m].id[1] = "N"}}

\* a created session is given an id that no session has
freshSessionId ==
  createdIdOf(CHOOSE k \in 1..(Cardinality(backendCreated) + 1) :
                /\ createdIdOf(k) \notin backendCreated
                /\ \A j \in 1..(k - 1) : createdIdOf(j) \in backendCreated)

\* the session POST /sessions creates from the form's data
CreatedSession(id, data) ==
  [id |-> id, status |-> "generating", name |-> data.name,
   repoFullName |-> data.repoFullName, baseRef |-> data.baseRef,
   headRef |-> data.headRef, createdAt |-> <<"iso", 3>>]

\* what POST /sessions may answer
CreateSessionResponses(data) ==
  { Response(TRUE, "200", "OK", Null, CreatedSession(freshSessionId, data)),
    Response(FALSE, "403", "Forbidden", <<"Not a community member">>, Null) }

\* the created sessions as GET /sessions lists them, the newest first
createdListed ==
  LET top == Cardinality(backendCreated) + 1
      data == CHOOSE d \in SessionSpecs : TRUE
      all == [k \in 1..top |-> CreatedSession(createdIdOf(top + 1 - k), data)]
  IN SelectSeq(all, LAMBDA c : c.id \in backendCreated)

\* what GET /sessions may answer: also the sessions created, once there are
ListSessionsResponsesNow ==
  ListSessionsResponses
    \cup { Response(TRUE, "200", "OK", Null, createdListed) : x \in backendCreated }

\* e.message, or 'Failed to load' for a thrown value without one
loadFailureMessage(e) ==
  IF e = Null \/ e[2] = Null THEN <<"Failed to load">> ELSE e[2]

Request(kind, id, by) == <<kind, id, by>>

RemoveAt(s, i) == [k \in 1..(Len(s) - 1) |-> IF k < i THEN s[k] ELSE s[k + 1]]

Indexes(s) == 1..Len(s)

\* the poll filter applied to everything
sessionsToRefreshAll(snapshot) == snapshot

\* snapshot.filter((s) => s.status === 'generating')
sessionsToRefresh(snapshot) ==
  SelectSeq(snapshot, LAMBDA s : s.status = "generating")

\* sessions.some((s) => s.status === 'generating')
hasGeneratingSessions(sessions) ==
  \E i \in 1..Len(sessions) : sessions[i].status = "generating"

\* the collection refresh() installs once every job list is in
hydrated(items, jobs) == [k \in 1..Len(items) |-> mapSession(items[k], jobs[k])]

\* refresh() installs the collection as soon as any job list is in
refreshSettledEarly(pending) == TRUE

\* Promise.all over the job-list requests has resolved
refreshSettled(pending) == pending = {}

RefreshRun(by) ==
  [by |-> by, phase |-> "list", items |-> <<>>, jobs |-> <<>>, pending |-> {}]

\* refresh(), up to its first await
refresh(by) ==
  IF sessionApi = Null
  THEN /\ stIssued' = {}
       /\ UNCHANGED <<stIsLoading, stError, stRefreshes>>
  ELSE /\ stIsLoading' = TRUE
       /\ stError' = Null
       /\ stRefreshes' = Append(stRefreshes, RefreshRun(by))
       /\ stIssued' = {Request("listSessions", Null, by)}

\* the state after SessionProvider's mount effects
StoreMounted ==
  /\ stSessions = <<>>
  /\ stPolls = <<>>
  /\ stCreates = <<>>
  /\ stNow = 0
  /\ stOps = 0
  /\ stLast = "mount"
  /\ stOutcome = Null
  /\ stInterval = (sessionApi # Null)
  /\ IF sessionApi = Null
     THEN /\ stIsLoading = FALSE
          /\ stError = Null
          /\ stRefreshes = <<>>
          /\ stIssued = {}
     ELSE /\ stIsLoading = TRUE
          /\ stError = Null
          /\ stRefreshes = <<RefreshRun("mount")>>
          /\ stIssued = {Request("listSessions", Null, "mount")}

StoreInit ==
  /\ envApiBaseUrl \in {Null, <<SP>>, <<"u">>}
  /\ AuthAside
  /\ ClustersUnmounted
  /\ SearchUnmounted
  /\ NotesUnmounted
  /\ StoreMounted
  /\ DetailUnmounted

\* the Refresh button of the sessions page, disabled while isLoading
RefreshClick ==
  /\ ~stIsLoading
  /\ stOps < MaxOps
  /\ refresh("user")
  /\ stOps' = stOps + 1
  /\ stLast' = "refresh"
  /\ stOutcome' = Null
  /\ UNCHANGED <<outsideStore, stSessions, stInterval, stPolls,
                 stCreates, stNow>>

\* the 3 s interval of the sessions page, installed while some session is
\* generating
AutoRefreshTick ==
  /\ hasGeneratingSessions(stSessions)
  /\ stOps < MaxOps
  /\ refresh("timer")
  /\ stOps' = stOps + 1
  /\ stLast' = "autoRefresh"
  /\ stOutcome' = Null
  /\ UNCHANGED <<outsideStore, stSessions, stInterval, stPolls,
                 stCreates, stNow>>

\* refresh() after `await api.listSessions()`
RefreshListResponse ==
  \E i \in Indexes(stRefreshes) :
    LET run == stRefreshes[i] IN
    /\ run.phase = "list"
    /\ \E res \in ListSessionsResponsesNow :
         LET r == requestJson(res) IN
         /\ stOutcome' = <<r[1], run.by>>
         /\ IF r[1] = "throw"
            THEN /\ stError' = loadFailureMessage(r[2])
                 /\ stIsLoading' = FALSE
                 /\ stRefreshes' = RemoveAt(stRefreshes, i)
                 /\ stIssued' = {}
                 /\ UNCHANGED stSessions
            ELSE IF Len(r[2]) = 0
            THEN /\ stSessions' = <<>>
                 /\ stIsLoading' = FALSE
                 /\ stRefreshes' = RemoveAt(stRefreshes, i)
                 /\ stIssued' = {}
                 /\ UNCHANGED stError
            ELSE /\ stRefreshes' =
                      [stRefreshes EXCEPT ![i] =
                         [run EXCEPT !.phase = "jobs",
                                     !.items = r[2],
                                     !.jobs = [k \in 1..Len(r[2]) |-> <<>>],
                                     !.pending = 1..Len(r[2])]]
                 /\ stIssued' =
                      {Request("listJobs", r[2][k].id, run.by) : k \in 1..Len(r[2])}
                 /\ UNCHANGED <<stSessions, stIsLoading, stError>>
    /\ stLast' = "refreshListResponse"
    /\ UNCHANGED <<outsideStore, stInterval, stPolls, stCreates,
                   stNow, stOps>>

\* refresh() after one `await api.listJobs(s.id)`
RefreshJobsResponse ==
  \E i \in Indexes(stRefreshes) :
    LET run == stRefreshes[i] IN
    /\ run.phase = "jobs"
    /\ \E k \in run.pending : \E res \in ListJobsResponses(run.items[k].id) :
         LET r == requestJson(res)
             jobs == [run.jobs EXCEPT ![k] = r[2]]
             pending == run.pending \ {k}
         IN
         /\ stOutcome' = <<r[1], run.by>>
         /\ IF r[1] = "throw"
            THEN /\ stError' = loadFailureMessage(r[2])
                 /\ stIsLoading' = FALSE
                 /\ stRefreshes' = RemoveAt(stRefreshes, i)
                 /\ UNCHANGED stSessions
            ELSE IF refreshSettled(pending)
            THEN /\ stSessions' = hydrated(run.items, jobs)
                 /\ stIsLoading' = FALSE
                 /\ stRefreshes' = RemoveAt(stRefreshes, i)
                 /\ UNCHANGED stError
            ELSE /\ stRefreshes' =
                      [stRefreshes EXCEPT ![i] =
                         [run EXCEPT !.jobs = jobs, !.pending = pending]]
                 /\ UNCHANGED <<stSessions, stIsLoading, stError>>
    /\ stIssued' = {}
    /\ stLast' = "refreshJobsResponse"
    /\ UNCHANGED <<outsideStore, stInterval, stPolls, stCreates,
                   stNow, stOps>>

\* jobsBySessionId.set(s.id, jobs): the Map keeps the jobs set last for an id
jobsBySessionIdSet(map, id, jobs) ==
  [x \in DOMAIN map \cup {id} |-> IF x = id THEN jobs ELSE map[x]]

\* prev.map(session => jobs ? {...session, jobs: jobs.map(mapJob)} : session)
\* with jobs = jobsBySessionId.get(session.id)
pollMerge(prev, jobsBySessionId) ==
  [n \in 1..Len(prev) |->
     IF prev[n].id \in DOMAIN jobsBySessionId
     THEN [prev[n] EXCEPT !.jobs = mapJobs(jobsBySessionId[prev[n].id])]
     ELSE prev[n]]

\* the callback of SessionProvider's 5 s interval, up to its first await
pollCallback ==
  /\ LET toRefresh == sessionsToRefresh(stSessions) IN
     IF Len(toRefresh) = 0
     THEN /\ stIssued' = {}
          /\ UNCHANGED stPolls
     ELSE /\ stPolls' =
               Append(stPolls,
                      [req |-> [k \in 1..Len(toRefresh) |-> toRefresh[k].id],
                       jobsBySessionId |-> [x \in {} |-> <<>>],
                       pending |-> 1..Len(toRefresh)])
          /\ stIssued' =
               {Request("listJobs", toRefresh[k].id, "poll") : k \in 1..Len(toRefresh)}
  /\ stLast' = "pollTick"
  /\ stOutcome' = Null
  /\ UNCHANGED <<outsideStore, stSessions, stIsLoading, stError,
                 stInterval, stRefreshes, stCreates, stNow>>

\* the 5 s interval of SessionProvider fires
PollTick ==
  /\ stInterval
  /\ stOps < MaxOps
  /\ pollCallback
  /\ stOps' = stOps + 1

\* a failed poll request surfaces as the store's error
pollFailureSurfaces(e) == loadFailureMessage(e)

\* catch {}: best-effort polling
pollFailure(e) == stError

\* a poll tick after one `await api.listJobs(s.id)` got the answer res
pollJobsAnswer(i, k, res) ==
  LET run == stPolls[i]
      r == requestJson(res)
      jobsBySessionId == jobsBySessionIdSet(run.jobsBySessionId, run.req[k], r[2])
      pending == run.pending \ {k}
  IN
  /\ stOutcome' = <<r[1], "poll">>
  /\ IF r[1] = "throw"
     THEN /\ stError' = pollFailure(r[2])
          /\ stPolls' = RemoveAt(stPolls, i)
          /\ UNCHANGED stSessions
     ELSE IF pending = {}
     THEN /\ stSessions' = pollMerge(stSessions, jobsBySessionId)
          /\ stPolls' = RemoveAt(stPolls, i)
          /\ UNCHANGED stError
     ELSE /\ stPolls' =
               [stPolls EXCEPT ![i] =
                  [run EXCEPT !.jobsBySessionId = jobsBySessionId,
                              !.pending = pending]]
          /\ UNCHANGED <<stSessions, stError>>
  /\ stIssued' = {}
  /\ stLast' = "pollJobsResponse"
  /\ UNCHANGED <<outsideStore, stIsLoading, stInterval,
                 stRefreshes, stCreates, stNow, stOps>>

\* a poll tick after one `await api.listJobs(s.id)`
PollJobsResponse ==
  \E i \in Indexes(stPolls) :
    \E k \in stPolls[i].pending : \E res \in ListJobsResponses(stPolls[i].req[k]) :
      pollJobsAnswer(i, k, res)

\* the time that passes between two readings of the clock
ClockSteps == {0, 1}

\* the synthetic session is appended
localSessionsAppended(newSession, prev) == Append(prev, newSession)

\* setSessions((prev) => [newSession, ...prev])
localSessions(newSession, prev) == <<newSession>> \o prev

\* createSession without a backend: the synthetic session, its createdAt
\* from `new Date()` and its id from the `Date.now()` read after it
syntheticSession(data, createdAt, t) ==
  [id |-> <<"session-", t>>,
   repoFullName |-> data.repoFullName,
   name |-> data.name,
   status |-> "generating",
   baseRef |-> data.baseRef,
   headRef |-> data.headRef,
   createdAt |-> <<"date", createdAt>>,
   jobs |-> <<>>]

\* isCreating of the sessions page: handleCreate awaits createSession(data);
\* the refresh() it calls next returns at once, its requests still awaited
isCreating == stCreates # <<>>

\* handleCreate of the sessions page, which returns while isCreating:
\* createSession(data), up to its first await; without a backend it returns
\* at once and the refresh() that follows returns at once too
HandleCreate ==
  /\ stOps < MaxOps
  /\ ~isCreating
  /\ \E data \in SessionSpecs :
       IF sessionApi = Null
       THEN \E d \in ClockSteps, e \in ClockSteps :
              /\ stNow' = stNow + d + e
              /\ stSessions' =
                   localSessions(syntheticSession(data, stNow + d, stNow'), stSessions)
              /\ stIssued' = {}
              /\ UNCHANGED stCreates
       ELSE /\ stCreates' = Append(stCreates, [phase |-> "create", created |-> Null])
            /\ stIssued' = {Request("createSession", Null, "user")}
            /\ UNCHANGED <<stSessions, stNow>>
  /\ stOps' = stOps + 1
  /\ stLast' = "createSession"
  /\ stOutcome' = Null
  /\ UNCHANGED <<outsideStore, stIsLoading, stError, stInterval,
                 stRefreshes, stPolls>>

\* createSession after `await api.createSession(...)`
CreateResponse ==
  \E i \in Indexes(stCreates) :
    /\ stCreates[i].phase = "create"
    /\ \E data \in SessionSpecs : \E res \in CreateSessionResponses(data) :
         LET r == requestJson(res) IN
         /\ stOutcome' = <<r[1], "create">>
         /\ IF r[1] = "throw"
            THEN /\ stCreates' = RemoveAt(stCreates, i)
                 /\ stIssued' = {}
            ELSE /\ stCreates' =
                      [stCreates EXCEPT ![i] = [phase |-> "jobs", created |-> r[2]]]
                 /\ stIssued' = {Request("listJobs", r[2].id, "create")}
    /\ stLast' = "createResponse"
    /\ UNCHANGED <<outsideStore, stSessions, stIsLoading, stError,
                   stInterval, stRefreshes, stPolls, stNow, stOps>>

\* createSession after `await api.listJobs(created.id)`, then the refresh()
\* of handleCreate
CreateJobsResponse ==
  \E i \in Indexes(stCreates) :
    /\ stCreates[i].phase = "jobs"
    /\ \E res \in ListJobsResponses(stCreates[i].created.id) :
         LET r == requestJson(res) IN
         /\ stOutcome' = <<r[1], "create">>
         /\ stCreates' = RemoveAt(stCreates, i)
         /\ IF r[1] = "throw"
            THEN /\ stIssued' = {}
                 /\ UNCHANGED <<stSessions, stIsLoading, stError, stRefreshes>>
            ELSE /\ stSessions' =
                      <<mapSession(stCreates[i].created, r[2])>> \o stSessions
                 /\ refresh("created")
    /\ stLast' = "createJobsResponse"
    /\ UNCHANGED <<outsideStore, stInterval, stPolls, stNow, stOps>>

StoreNext ==
  \/ RefreshClick
  \/ AutoRefreshTick
  \/ RefreshListResponse
  \/ RefreshJobsResponse
  \/ PollTick
  \/ PollJobsResponse
  \/ HandleCreate
  \/ CreateResponse
  \/ CreateJobsResponse

StoreSpec == StoreInit /\ [][StoreNext]_vars

----------------------------------------------------------------------------
(* The store on a page other than the sessions page, left alone by the     *)
(* user: the mount refresh() completes, then only the 5 s poll runs. The   *)
(* backend has finished every session by the time it is polled, and every  *)
(* poll request succeeds.                                                   *)

\* poll ticks whose requests are awaited at a time
MaxPolls == 3

\* the 5 s interval fires, as long as the page lives
PollTickAgain ==
  /\ stInterval
  /\ Len(stPolls) < MaxPolls
  /\ pollCallback
  /\ UNCHANGED stOps

\* GET /sessions/:id/jobs answers with the completed jobs
PollJobsSucceeds ==
  \E i \in Indexes(stPolls) : \E k \in stPolls[i].pending :
    pollJobsAnswer(i, k, Response(TRUE, "200", "OK", Null, JobsCompleted))

PollOnlyNext ==
  \/ RefreshListResponse
  \/ RefreshJobsResponse
  \/ PollTickAgain
  \/ PollJobsSucceeds

PollOnlySpec ==
  /\ StoreInit
  /\ [][PollOnlyNext]_vars
  /\ WF_vars(RefreshListResponse)
  /\ WF_vars(RefreshJobsResponse)
  /\ WF_vars(PollTickAgain)
  /\ WF_vars(PollJobsSucceeds)


----------------------------------------------------------------------------
(* Issue-clusters page (src/unnamed/part_004): the cluster list and the    *)
(* top-issues list of the selected product, their per-filter caches and    *)
(* their request-sequence tokens. The version filter stays unset.           *)
(*                                                                         *)
(* A product label is a tuple (<<"p1">>); a JSON boolean is <<"bool", b>>,  *)
(* a JSON number <<"number", n>>, a JSON array <<"list", s>>, a missing    *)
(* field Null; a cache is a function from the keys it holds.                *)

\* selections and clicks made after the page was mounted
MaxSelects == 1

Products == {<<"p1">>, <<"p2">>}

ALL == <<"__all__">>

REPO == <<"microsoft/PowerToys">>

Repos == {REPO, <<"microsoft/terminal">>}

\* selectedVersion: undefined is all versions, null is unversioned
Undefined == <<"undefined">>

Versions == {Undefined, Null, <<"0.90">>}

\* `${repo}|${_version ?? '__all__'}|${productLabel}`
clustersKey(repo, version, productLabel) ==
  <<repo, IF version \in {Null, Undefined} THEN ALL ELSE version, productLabel>>

\* `${repo}|${version ?? '__all__'}|${productLabel ?? '__all__'}`
topIssuesKey(repo, version, productLabel) ==
  <<repo, IF version \in {Null, Undefined} THEN ALL ELSE version,
    IF productLabel = Null THEN ALL ELSE productLabel>>

Boolean(v) == IF v = Null THEN FALSE ELSE v[2]

\* res.clusters ?? [], res.issues ?? []
orEmpty(list) == IF list = Null THEN <<>> ELSE list[2]

\* res.limit ?? CLUSTER_PAGE_LIMIT
limitOf(limit) == IF limit = Null THEN CLUSTER_PAGE_LIMIT ELSE limit[2]

\* the bodies GET /issues/clusters may answer for a product:
\* <<clusters, isTruncated, limit>>
ClusterBodies(productLabel) ==
  { << <<"list", <<<<"cluster", productLabel, 1>>>>>>, <<"bool", TRUE>>, <<"number", 1>> >>,
    << Null, Null, Null >> }

ClusterResponses(productLabel) ==
  { Response(TRUE, "200", "OK", Null, body) : body \in ClusterBodies(productLabel) }
    \cup { Response(FALSE, "500", "Internal Server Error", Null, Null) }

\* the bodies GET /issues/top may answer for a product filter: <<issues>>
TopIssueBodies(productLabel) ==
  { << <<"list", <<<<"issue", productLabel, 1>>>>>> >>,
    << Null >> }

TopIssueResponses(productLabel) ==
  { Response(TRUE, "200", "OK", Null, body) : body \in TopIssueBodies(productLabel) }
    \cup { <<"reject", <<"Failed to fetch">>>> }

\* the bodies GET /issues/versions may answer: <<defaultTargetVersion, versions>>
VersionBodies ==
  { << <<"0.90">>, Null >>,
    << Null, Null >> }

\* res.defaultTargetVersion ?? res.versions?.[0]?.targetVersion ?? null
defaultVersion(body) ==
  IF body[1] # Null THEN body[1]
  ELSE IF body[2] # Null /\ Len(body[2][2]) > 0 THEN body[2][2][1]
  ELSE Null

\* the three loads the effect on [api, repo] awaits with Promise.all
BootLoads == {"versions", "syncStatus", "stats"}

BootResponses(load) ==
  (IF load = "versions"
   THEN { Response(TRUE, "200", "OK", Null, body) : body \in VersionBodies }
   ELSE { Response(TRUE, "200", "OK", Null, Null) })
    \cup { Response(FALSE, "500", "Internal Server Error", Null, Null) }

\* what the requests of handleSync and handleRecluster may answer
HandlerResponses ==
  { Response(TRUE, "200", "OK", Null, Null),
    Response(FALSE, "500", "Internal Server Error", Null, Null),
    <<"reject", <<"Failed to fetch">>>> }

\* e.message, or the fallback for a thrown value without one
messageOr(e, fallback) == IF e = Null \/ e[2] = Null THEN fallback ELSE e[2]

\* every response is applied
stillCurrentAlways(requestId, current) == TRUE

\* requestId === xRequestIdRef.current
stillCurrent(requestId, current) == requestId = current

ClustersRequest(kind, id, key, productLabel) ==
  [kind |-> kind, id |-> id, key |-> key, product |-> productLabel]

\* the request loadTopIssues issues
topIssuesRequest(version, productLabel) ==
  ClustersRequest("topIssues", clTopReqId + 1,
                  topIssuesKey(clRepo, version, productLabel), productLabel)

\* the request loadClusters issues, if any
clustersRequests(version, productLabel) ==
  IF productLabel = Null THEN {}
  ELSE {ClustersRequest("clusters", clClustersReqId + 1,
                        clustersKey(clRepo, version, productLabel), productLabel)}

\* loadTopIssues(version, productLabel), up to its await
loadTopIssues(version, productLabel) ==
  LET key == topIssuesKey(clRepo, version, productLabel) IN
  /\ clTopReqId' = clTopReqId + 1
  /\ IF key \in DOMAIN clTopCache
     THEN /\ clTopIssues' = clTopCache[key]
          /\ UNCHANGED clTopLoading
     ELSE /\ clTopLoading' = TRUE
          /\ UNCHANGED clTopIssues

\* loadClusters(version, productLabel), up to its await
loadClusters(version, productLabel) ==
  IF productLabel = Null
  THEN /\ clClusters' = <<>>
       /\ clTruncated' = FALSE
       /\ UNCHANGED <<clLimit, clClustersReqId, clClustersLoading>>
  ELSE LET key == clustersKey(clRepo, version, productLabel) IN
       /\ clClustersReqId' = clClustersReqId + 1
       /\ IF key \in DOMAIN clClustersCache
          THEN /\ clClusters' = clClustersCache[key][1]
               /\ clTruncated' = clClustersCache[key][2]
               /\ clLimit' = clClustersCache[key][3]
               /\ UNCHANGED clClustersLoading
          ELSE /\ clClustersLoading' = TRUE
               /\ UNCHANGED <<clClusters, clTruncated, clLimit>>

\* the effect on [api, selectedVersion, selectedProduct]
filterEffect(version, productLabel) ==
  /\ clInFlight' = clInFlight \cup {topIssuesRequest(version, productLabel)}
                     \cup clustersRequests(version, productLabel)
  /\ loadTopIssues(version, productLabel)
  /\ loadClusters(version, productLabel)

\* what the filter effect may change
filterVars == <<clInFlight, clTopReqId, clTopIssues, clTopLoading, clClusters,
                clTruncated, clLimit, clClustersReqId, clClustersLoading>>

\* setSelectedVersion(v) and the effects a changed version runs
setSelectedVersion(v) ==
  /\ clVersionStored' = TRUE
  /\ IF v = clVersion
     THEN UNCHANGED <<clVersion, filterVars>>
     ELSE /\ clVersion' = v
          /\ filterEffect(v, clProduct)

\* one run of the effect on [api, repo]: the loads Promise.all still awaits
\* and whether its try / catch / finally has run
PageBoot == [pending |-> BootLoads, settled |-> FALSE]

\* the state after the page's mount effects: on a first visit localStorage
\* holds neither a version nor a product, later it holds a version and the
\* product selected last, if any
ClustersMounted ==
  /\ clRepo = REPO
  /\ \/ clVersionStored = FALSE /\ clVersion = Null /\ clProduct = Null
     \/ clVersionStored = TRUE /\ clVersion = Undefined /\ clProduct \in {Null, <<"p1">>}
  /\ clClusters = <<>>
  /\ clTruncated = FALSE
  /\ clLimit = CLUSTER_PAGE_LIMIT
  /\ clTopIssues = <<>>
  /\ clError = Null
  /\ clIsLoading = TRUE
  /\ clBoots = <<PageBoot>>
  /\ clClustersLoading = (clProduct # Null)
  /\ clTopLoading = TRUE
  /\ clClustersCache = <<>>
  /\ clTopCache = <<>>
  /\ clClustersReqId = (IF clProduct = Null THEN 0 ELSE 1)
  /\ clTopReqId = 1
  /\ clInFlight =
       {ClustersRequest("topIssues", 1, topIssuesKey(REPO, clVersion, clProduct),
                        clProduct)}
         \cup (IF clProduct = Null THEN {}
               ELSE {ClustersRequest("clusters", 1,
                                     clustersKey(REPO, clVersion, clProduct), clProduct)})
  /\ clSelects = 0
  /\ clLast = "mount"
  /\ clHandled = Null

\* setSelectedProduct and the effect on [api, selectedVersion, selectedProduct]
SetSelectedProduct ==
  /\ clSelects < MaxSelects
  /\ \E p \in Products \cup {Null} :
       /\ p # clProduct
       /\ clProduct' = p
       /\ filterEffect(clVersion, p)
  /\ clSelects' = clSelects + 1
  /\ clLast' = "setSelectedProduct"
  /\ clHandled' = Null
  /\ UNCHANGED <<outsideClusters, clError, clClustersCache, clTopCache, clRepo,
                 clVersion, clVersionStored, clIsLoading, clBoots>>

\* the version Select: setSelectedVersion(fromSelectValue(v))
SelectVersion ==
  /\ clSelects < MaxSelects
  /\ \E v \in Versions :
       /\ v # clVersion
       /\ setSelectedVersion(v)
  /\ clSelects' = clSelects + 1
  /\ clLast' = "setSelectedVersion"
  /\ clHandled' = Null
  /\ UNCHANGED <<outsideClusters, clProduct, clError, clClustersCache, clTopCache,
                 clRepo, clIsLoading, clBoots>>

\* setRepo of the header: the effect on [api, repo] runs again
SetRepo ==
  /\ clSelects < MaxSelects
  /\ \E repo \in Repos :
       /\ repo # clRepo
       /\ clRepo' = repo
  /\ clTopCache' = <<>>
  /\ clClustersCache' = <<>>
  /\ clTopIssues' = <<>>
  /\ clClusters' = <<>>
  /\ clTruncated' = FALSE
  /\ clLimit' = CLUSTER_PAGE_LIMIT
  /\ clIsLoading' = TRUE
  /\ clError' = Null
  /\ clBoots' = Append(clBoots, PageBoot)
  /\ clSelects' = clSelects + 1
  /\ clLast' = "setRepo"
  /\ clHandled' = Null
  /\ UNCHANGED <<outsideClusters, clProduct, clVersion, clVersionStored,
                 clClustersLoading, clTopLoading, clClustersReqId, clTopReqId,
                 clInFlight>>

\* the loads of a run whose answers still change the page: all of them
\* until Promise.all settles, then loadVersions only, whose continuation
\* runs whatever became of the others
awaited(pending, settled) ==
  IF settled THEN pending \cap {"versions"} ELSE pending

\* one load of the effect on [api, repo] is answered: loadVersions after its
\* await, and the try / catch / finally around Promise.all once it settles
BootResponse ==
  \E b \in 1..Len(clBoots) : \E load \in clBoots[b].pending :
    \E res \in BootResponses(load) :
      LET r == requestJson(res)
          settles == /\ ~clBoots[b].settled
                     /\ (r[1] = "throw" \/ clBoots[b].pending = {load})
          settled == clBoots[b].settled \/ settles
          pending == awaited(clBoots[b].pending \ {load}, settled)
      IN
      /\ clHandled' = <<load, b, r[1]>>
      /\ clBoots' = [clBoots EXCEPT ![b] = [pending |-> pending, settled |-> settled]]
      /\ IF r[1] = "ok" /\ load = "versions" /\ ~clVersionStored
         THEN setSelectedVersion(defaultVersion(r[2]))
         ELSE UNCHANGED <<clVersion, clVersionStored, filterVars>>
      /\ clError' = IF settles /\ r[1] = "throw"
                    THEN messageOr(r[2], <<"Failed to load">>)
                    ELSE clError
      /\ clIsLoading' = IF settles THEN FALSE ELSE clIsLoading
      /\ clLast' = "bootResponse"
      /\ UNCHANGED <<outsideClusters, clProduct, clClustersCache, clTopCache,
                     clRepo, clSelects>>

\* the request a button's handler awaits: its POST, then loadSyncStatus,
\* then loadStats
HandlerSteps == <<"enqueue", "syncStatus", "stats">>

HandlerRequest(kind, id, step) ==
  [kind |-> kind, id |-> id, key |-> <<"step", step>>, product |-> Null]

\* the handler of a button, up to its first await
handlerStart(kind) ==
  /\ clError' = Null
  /\ clInFlight' = clInFlight \cup {HandlerRequest(kind, clSelects + 1, 1)}
  /\ clSelects' = clSelects + 1
  /\ clLast' = kind
  /\ clHandled' = Null
  /\ UNCHANGED <<outsideClusters, clProduct, clClusters, clTruncated, clLimit,
                 clTopIssues, clClustersLoading, clTopLoading, clClustersCache,
                 clTopCache, clClustersReqId, clTopReqId, clRepo, clVersion,
                 clVersionStored, clIsLoading, clBoots>>

\* the Sync button
HandleSync ==
  /\ clSelects < MaxSelects
  /\ handlerStart("sync")

\* the Recluster button
HandleRecluster ==
  /\ clSelects < MaxSelects
  /\ clProduct # Null
  /\ handlerStart("recluster")

\* 'Sync failed' or 'Recluster failed'
handlerFallback(kind) ==
  IF kind = "sync" THEN <<"Sync failed">> ELSE <<"Recluster failed">>

\* handleSync or handleRecluster after one of its awaits
HandlerResponse ==
  \E req \in clInFlight :
    /\ req.kind \in {"sync", "recluster"}
    /\ \E res \in HandlerResponses :
         LET r == requestJson(res)
             step == req.key[2]
         IN
         /\ clHandled' = <<req.kind, req.id, r[1]>>
         /\ IF r[1] = "throw"
            THEN /\ clError' = messageOr(r[2], handlerFallback(req.kind))
                 /\ clInFlight' = clInFlight \ {req}
            ELSE /\ UNCHANGED clError
                 /\ clInFlight' =
                      (clInFlight \ {req})
                        \cup (IF step = Len(HandlerSteps) THEN {}
                              ELSE {HandlerRequest(req.kind, req.id, step + 1)})
    /\ clLast' = "handlerResponse"
    /\ UNCHANGED <<outsideClusters, clProduct, clClusters, clTruncated, clLimit,
                   clTopIssues, clClustersLoading, clTopLoading, clClustersCache,
                   clTopCache, clClustersReqId, clTopReqId, clRepo, clVersion,
                   clVersionStored, clIsLoading, clBoots, clSelects>>

\* loadClusters after `await api.listIssueClusters(...)`
ClustersResponse ==
  \E req \in clInFlight :
    /\ req.kind = "clusters"
    /\ \E res \in ClusterResponses(req.product) :
         LET r == requestJson(res) IN
         /\ clHandled' = <<"clusters", req.id, r[1]>>
         /\ IF ~stillCurrent(req.id, clClustersReqId)
            THEN UNCHANGED <<clClusters, clTruncated, clLimit, clClustersCache,
                             clError, clClustersLoading>>
            ELSE IF r[1] = "ok"
            THEN /\ clClusters' = orEmpty(r[2][1])
                 /\ clTruncated' = Boolean(r[2][2])
                 /\ clLimit' = limitOf(r[2][3])
                 /\ clClustersCache' =
                      (req.key :> <<clClusters', clTruncated', clLimit'>>) @@ clClustersCache
                 /\ clClustersLoading' = FALSE
                 /\ UNCHANGED clError
            ELSE /\ clError' = messageOr(r[2], <<"Failed to load clusters">>)
                 /\ clClustersLoading' = FALSE
                 /\ UNCHANGED <<clClusters, clTruncated, clLimit, clClustersCache>>
    /\ clInFlight' = clInFlight \ {req}
    /\ clLast' = "clustersResponse"
    /\ UNCHANGED <<outsideClusters, clProduct, clTopIssues, clTopLoading, clTopCache,
                   clClustersReqId, clTopReqId, clSelects, clRepo, clVersion,
                   clVersionStored, clIsLoading, clBoots>>

\* loadTopIssues after `await api.getTopIssuesByReactions(...)`
TopIssuesResponse ==
  \E req \in clInFlight :
    /\ req.kind = "topIssues"
    /\ \E res \in TopIssueResponses(req.product) :
         LET r == requestJson(res) IN
         /\ clHandled' = <<"topIssues", req.id, r[1]>>
         /\ IF ~stillCurrent(req.id, clTopReqId)
            THEN UNCHANGED <<clTopIssues, clTopCache, clError, clTopLoading>>
            ELSE IF r[1] = "ok"
            THEN /\ clTopIssues' = orEmpty(r[2][1])
                 /\ clTopCache' = (req.key :> clTopIssues') @@ clTopCache
                 /\ clTopLoading' = FALSE
                 /\ UNCHANGED clError
            ELSE /\ clError' = messageOr(r[2], <<"Failed to load top issues">>)
                 /\ clTopLoading' = FALSE
                 /\ UNCHANGED <<clTopIssues, clTopCache>>
    /\ clInFlight' = clInFlight \ {req}
    /\ clLast' = "topIssuesResponse"
    /\ UNCHANGED <<outsideClusters, clProduct, clClusters, clTruncated, clLimit,
                   clClustersLoading, clClustersCache, clClustersReqId, clTopReqId,
                   clSelects, clRepo, clVersion, clVersionStored, clIsLoading,
                   clBoots>>

ClustersInit ==
  /\ envApiBaseUrl = <<"u">>
  /\ AuthAside
  /\ StoreUnmounted
  /\ SearchUnmounted
  /\ NotesUnmounted
  /\ ClustersMounted
  /\ DetailUnmounted

ClustersNext ==
  \/ SetSelectedProduct
  \/ SelectVersion
  \/ SetRepo
  \/ BootResponse
  \/ HandleSync
  \/ HandleRecluster
  \/ HandlerResponse
  \/ ClustersResponse
  \/ TopIssuesResponse

ClustersSpec == ClustersInit /\ [][ClustersNext]_vars


----------------------------------------------------------------------------
(* Ref search combobox (src/unnamed/part_002): the debounced commit search. *)
(* A query and a sha are sequences of characters.                           *)

\* edits of the search text and changes of the repository after the
\* combobox was mounted
MaxTypes == 3

Queries ==
  { <<>>, <<"a", "b">>, <<"a", "b", "c", "d">>, <<"a", "b", "c", "d", "e">> }

\* s.slice(0, n)
Slice(s, n) == SubSeq(s, 1, IF Len(s) < n THEN Len(s) ELSE n)

\* the commit GitHub finds for a sha prefix: <<sha, lines of its message>>
CommitFor(query) ==
  << query \o SubSeq(<<"0", "0", "0", "0", "0", "0", "0", "0">>, 1, 8 - Len(query)),
     << <<"f", "i", "x">>, <<"d", "e", "t", "a", "i", "l", "s">> >> >>

\* data.map(commit => ({type, name, sha, displayName}))
toCommitRef(commit) ==
  [type |-> "commit",
   name |-> commit[1],
   sha |-> commit[1],
   displayName |-> <<Slice(commit[1], 7), " - ", Slice(commit[2][1], 50)>>]

\* what the fetch of searchCommits may end in
SearchOutcomes(query) ==
  { <<"ok", <<CommitFor(query)>>>>, <<"ok", <<>>>>, <<"notOk", <<>>>>,
    <<"reject", <<>>>> }

\* searchCommits(repo, query) after its fetch: <<"return", refs>> or <<"throw">>
searchCommits(outcome) ==
  IF outcome[1] = "reject" THEN <<"throw", <<>>>>
  ELSE IF outcome[1] = "notOk" THEN <<"return", <<>>>>
  ELSE <<"return", [k \in 1..Len(outcome[2]) |-> toCommitRef(outcome[2][k])]>>

\* the state after the combobox's mount effects: the debounce timer of the
\* empty search text is pending
SearchMounted ==
  /\ rsSearch = <<>>
  /\ rsCommits = <<>>
  /\ rsLoading = FALSE
  /\ rsTimer = <<"timer", <<>>>>
  /\ rsRepo = REPO
  /\ rsRepos = <<>>
  /\ rsQueries = <<>>
  /\ rsOutcomes = <<>>
  /\ rsTypes = 0
  /\ rsLast = "mount"
  /\ rsHandled = 0

\* setSearch(q): the effect's cleanup clears the pending timer and the
\* effect starts a new one
TypeSearch ==
  /\ rsTypes < MaxTypes
  /\ \E q \in Queries :
       /\ q # rsSearch
       /\ rsSearch' = q
       /\ rsTimer' = <<"timer", q>>
  /\ rsTypes' = rsTypes + 1
  /\ rsLast' = "type"
  /\ rsHandled' = 0
  /\ UNCHANGED <<outsideSearch, rsCommits, rsLoading, rsRepo, rsQueries, rsRepos,
                 rsOutcomes>>

\* the repo prop changes (the Repository select of the create dialog):
\* searchCommitsDebounced is a new function, so the effect's cleanup clears
\* the pending timer and the effect starts one for the text held
SetRepoProp ==
  /\ rsTypes < MaxTypes
  /\ \E repo \in Repos :
       /\ repo # rsRepo
       /\ rsRepo' = repo
  /\ rsTimer' = <<"timer", rsSearch>>
  /\ rsTypes' = rsTypes + 1
  /\ rsLast' = "repo"
  /\ rsHandled' = 0
  /\ UNCHANGED <<outsideSearch, rsSearch, rsCommits, rsLoading, rsQueries, rsRepos,
                 rsOutcomes>>

\* the debounce timer fires: searchCommitsDebounced(search), up to its await
DebounceFires ==
  /\ rsTimer # Null
  /\ LET query == rsTimer[2] IN
     IF Len(query) < 4
     THEN /\ rsCommits' = <<>>
          /\ UNCHANGED <<rsLoading, rsQueries, rsRepos, rsOutcomes>>
     ELSE /\ rsLoading' = TRUE
          /\ rsQueries' = Append(rsQueries, query)
          /\ rsRepos' = Append(rsRepos, rsRepo)
          /\ rsOutcomes' = Append(rsOutcomes, "pending")
          /\ UNCHANGED rsCommits
  /\ rsTimer' = Null
  /\ rsLast' = "debounce"
  /\ rsHandled' = 0
  /\ UNCHANGED <<outsideSearch, rsSearch, rsRepo, rsTypes>>

\* searchCommitsDebounced after `await searchCommits(repo, query)`
SearchResponse ==
  \E id \in 1..Len(rsQueries) :
    /\ rsOutcomes[id] = "pending"
    /\ \E outcome \in SearchOutcomes(rsQueries[id]) :
         LET r == searchCommits(outcome) IN
         /\ rsOutcomes' = [rsOutcomes EXCEPT ![id] = r[1]]
         /\ IF r[1] = "return"
            THEN rsCommits' = r[2]
            ELSE UNCHANGED rsCommits
    /\ rsLoading' = FALSE
    /\ rsLast' = "searchResponse"
    /\ rsHandled' = id
    /\ UNCHANGED <<outsideSearch, rsSearch, rsTimer, rsRepo, rsQueries, rsRepos,
                   rsTypes>>

SearchInit ==
  /\ envApiBaseUrl = <<"u">>
  /\ AuthAside
  /\ StoreUnmounted
  /\ ClustersUnmounted
  /\ NotesUnmounted
  /\ SearchMounted
  /\ DetailUnmounted

SearchNext ==
  \/ TypeSearch
  \/ SetRepoProp
  \/ DebounceFires
  \/ SearchResponse

SearchSpec == SearchInit /\ [][SearchNext]_vars


----------------------------------------------------------------------------
(* Release-notes page (src/src/app/pages/ReleaseNotesPage.tsx): loading    *)
(* the artifact, editing an item's text locally, saving it and excluding   *)
(* or including an item. The artifact has one section with the items x     *)
(* and y; the backend handles the patches it receives in the order they    *)
(* were issued. The sections state is Null or <<"list", sections>>.         *)

\* user operations on the page after its mount
MaxNoteOps == 2

ItemIds == {"x", "y"}

\* the ids the backend gives the items it adds
AddedIds == <<"m1", "m2", "m3", "m4">>

\* the Add Item dialog's form, trimmed
Areas == {"core"}

AddTexts == {"new note"}

\* the ids of the items of the sections
itemIdsOf(sections) ==
  UNION {{sections[s].items[k].id : k \in 1..Len(sections[s].items)} :
           s \in 1..Len(sections)}

Texts == {"t1"}

\* section.items.map(f) over every section
mapItems(sections, f(_)) ==
  [s \in 1..Len(sections) |->
     [sections[s] EXCEPT !.items = [k \in 1..Len(@) |-> f(@[k])]]]

\* sections.flatMap((s) => s.items).find((i) => i.id === itemId)
findItem(sections, itemId) ==
  LET s == CHOOSE s \in 1..Len(sections) :
             \E k \in 1..Len(sections[s].items) : sections[s].items[k].id = itemId
      k == CHOOSE k \in 1..Len(sections[s].items) : sections[s].items[k].id = itemId
  IN sections[s].items[k]

\* the text put into every item
withLocalTextEverywhere(prev, itemId, text) ==
  IF prev = Null THEN prev
  ELSE <<"list", mapItems(prev[2], LAMBDA item : [item EXCEPT !.text = text])>>

\* updateLocalText's updater
withLocalText(prev, itemId, text) ==
  IF prev = Null THEN prev
  ELSE <<"list",
         mapItems(prev[2],
                  LAMBDA item : IF item.id = itemId THEN [item EXCEPT !.text = text]
                                ELSE item)>>

\* the backend adding an item to an area: the item gets a new id and is
\* appended to the area's section, or to a new section for the area
withAddedItem(sections, area, text) ==
  LET item == NoteItem(AddedIds[Cardinality(itemIdsOf(sections) \ ItemIds) + 1],
                       "manual", text, FALSE)
  IN IF \E s \in 1..Len(sections) : sections[s].area = area
     THEN [s \in 1..Len(sections) |->
             IF sections[s].area = area
             THEN [sections[s] EXCEPT !.items = Append(@, item)]
             ELSE sections[s]]
     ELSE Append(sections, [area |-> area, items |-> <<item>>])

\* the backend applying one operation of a patch
applyOp(sections, op) ==
  IF op.op = "addItem" THEN withAddedItem(sections, op.area, op.text)
  ELSE mapItems(sections,
                LAMBDA item :
                  IF item.id # op.itemId THEN item
                  ELSE IF op.op = "updateText" THEN [item EXCEPT !.text = op.text]
                  ELSE IF op.op = "exclude" THEN [item EXCEPT !.excluded = TRUE]
                  ELSE [item EXCEPT !.excluded = FALSE])

\* the response's sections with the texts held locally put back
sectionsAfterPatchMerged(prev, next) ==
  IF prev = Null THEN next
  ELSE <<"list",
         mapItems(next[2],
                  LAMBDA item : IF item.id \in itemIdsOf(prev[2])
                                THEN [item EXCEPT !.text = findItem(prev[2], item.id).text]
                                ELSE item)>>

\* setSections(next.sections)
sectionsAfterPatch(prev, next) == next

\* e.message, or 'Failed to save' / 'Failed to load'
NotesFailures ==
  { Response(FALSE, "500", "Internal Server Error", Null, Null),
    <<"reject", <<"Failed to fetch">>>> }

\* the state after the page's mount effect: refresh() awaits the artifact
NotesMounted ==
  /\ rnSections = Null
  /\ rnIsLoading = TRUE
  /\ rnError = Null
  /\ rnSaving = {}
  /\ rnExcluding = {}
  /\ rnBackend = InitialSections
  /\ rnRefresh = "pending"
  /\ rnPatches = <<>>
  /\ rnOps = 0
  /\ rnLast = "mount"
  /\ rnHandled = <<0, "none">>
  /\ rnBefore = Null
  /\ rnRegenerating = {}
  /\ rnRegens = <<>>

\* the page shows its items: it is not loading and has sections
NotesShown == ~rnIsLoading /\ rnSections[1] = "list"

\* the Refresh button, up to the await of refresh()
NotesRefreshClick ==
  /\ ~rnIsLoading
  /\ rnOps < MaxNoteOps
  /\ rnIsLoading' = TRUE
  /\ rnError' = Null
  /\ rnRefresh' = "pending"
  /\ rnOps' = rnOps + 1
  /\ rnLast' = "refresh"
  /\ rnHandled' = <<0, "none">>
  /\ rnBefore' = Null
  /\ UNCHANGED <<outsideNotes, regenVars, rnSections, rnSaving, rnExcluding, rnBackend, rnPatches>>

\* refresh() after `await api.getReleaseNotesArtifact(sessionId)`
NotesRefreshResponse ==
  /\ rnRefresh = "pending"
  /\ \E res \in {Response(TRUE, "200", "OK", Null, <<"list", rnBackend>>)} \cup NotesFailures :
       LET r == requestJson(res) IN
       /\ rnHandled' = <<0, r[1]>>
       /\ rnBefore' = Null
       /\ IF r[1] = "ok"
          THEN rnSections' = r[2] /\ UNCHANGED rnError
          ELSE rnError' = messageOr(r[2], <<"Failed to load">>) /\ UNCHANGED rnSections
  /\ rnIsLoading' = FALSE
  /\ rnRefresh' = "idle"
  /\ rnLast' = "refreshResponse"
  /\ UNCHANGED <<outsideNotes, regenVars, rnSaving, rnExcluding, rnBackend, rnPatches, rnOps>>

\* typing in an item's text box
UpdateLocalText ==
  /\ NotesShown
  /\ rnOps < MaxNoteOps
  /\ \E itemId \in itemIdsOf(rnSections[2]), text \in Texts :
       /\ findItem(rnSections[2], itemId).text # text
       /\ rnSections' = withLocalText(rnSections, itemId, text)
  /\ rnOps' = rnOps + 1
  /\ rnLast' = "updateLocalText"
  /\ rnHandled' = <<0, "none">>
  /\ rnBefore' = Null
  /\ UNCHANGED <<outsideNotes, regenVars, rnIsLoading, rnError, rnSaving, rnExcluding,
                 rnBackend, rnRefresh, rnPatches>>

PatchRequest(kind, op) ==
  [kind |-> kind, op |-> op, phase |-> "sent", outcome |-> Null]

\* the Save button of an item, up to the await of patch()
SaveClick ==
  /\ NotesShown
  /\ rnOps < MaxNoteOps
  /\ \E itemId \in itemIdsOf(rnSections[2]) \ rnSaving :
       /\ rnSaving' = rnSaving \cup {itemId}
       /\ rnPatches' =
            Append(rnPatches,
                   PatchRequest("save", [op |-> "updateText", itemId |-> itemId,
                                         text |-> findItem(rnSections[2], itemId).text]))
  /\ rnError' = Null
  /\ rnOps' = rnOps + 1
  /\ rnLast' = "save"
  /\ rnHandled' = <<0, "none">>
  /\ rnBefore' = Null
  /\ UNCHANGED <<outsideNotes, regenVars, rnSections, rnIsLoading, rnExcluding, rnBackend,
                 rnRefresh>>

\* the Exclude / Include button of an item, up to the await of patch()
ExcludeClick ==
  /\ NotesShown
  /\ rnOps < MaxNoteOps
  /\ \E itemId \in itemIdsOf(rnSections[2]) \ rnExcluding :
       /\ rnExcluding' = rnExcluding \cup {itemId}
       /\ rnPatches' =
            Append(rnPatches,
                   PatchRequest("exclude",
                                [op |-> IF findItem(rnSections[2], itemId).excluded
                                        THEN "include" ELSE "exclude",
                                 itemId |-> itemId, text |-> ""]))
  /\ rnError' = Null
  /\ rnOps' = rnOps + 1
  /\ rnLast' = "exclude"
  /\ rnHandled' = <<0, "none">>
  /\ rnBefore' = Null
  /\ UNCHANGED <<outsideNotes, regenVars, rnSections, rnIsLoading, rnSaving, rnBackend,
                 rnRefresh>>

\* the Add button of the Add Item dialog, up to the await of patch()
AddItemClick ==
  /\ ~rnIsLoading
  /\ rnOps < MaxNoteOps
  /\ \E area \in Areas, text \in AddTexts :
       rnPatches' =
         Append(rnPatches,
                PatchRequest("add", [op |-> "addItem", itemId |-> "", area |-> area,
                                     text |-> text]))
  /\ rnError' = Null
  /\ rnOps' = rnOps + 1
  /\ rnLast' = "addItem"
  /\ rnHandled' = <<0, "none">>
  /\ rnBefore' = Null
  /\ UNCHANGED <<outsideNotes, regenVars, rnSections, rnIsLoading, rnSaving,
                 rnExcluding, rnBackend, rnRefresh>>

\* the backend handles the oldest patch it has not handled yet
PatchHandled ==
  \E i \in 1..Len(rnPatches) :
    /\ rnPatches[i].phase = "sent"
    /\ \A j \in 1..(i - 1) : rnPatches[j].phase # "sent"
    /\ \/ LET next == applyOp(rnBackend, rnPatches[i].op) IN
          /\ rnBackend' = next
          /\ rnPatches' =
               [rnPatches EXCEPT ![i].phase = "answered",
                                 ![i].outcome =
                                   Response(TRUE, "200", "OK", Null, <<"list", next>>)]
       \/ /\ \E res \in NotesFailures :
               rnPatches' = [rnPatches EXCEPT ![i].phase = "answered", ![i].outcome = res]
          /\ UNCHANGED rnBackend
    /\ rnLast' = "patchHandled"
    /\ rnHandled' = <<0, "none">>
    /\ rnBefore' = Null
    /\ UNCHANGED <<outsideNotes, regenVars, rnSections, rnIsLoading, rnError, rnSaving,
                   rnExcluding, rnRefresh, rnOps>>

\* patch() after `await api.patchReleaseNotesArtifact(...)`, then the rest
\* of the button's handler
PatchResponse ==
  \E i \in 1..Len(rnPatches) :
    /\ rnPatches[i].phase = "answered"
    /\ LET r == requestJson(rnPatches[i].outcome) IN
       /\ rnHandled' = <<i, r[1]>>
       /\ rnBefore' = rnSections
       /\ IF r[1] = "ok"
          THEN rnSections' = sectionsAfterPatch(rnSections, r[2]) /\ UNCHANGED rnError
          ELSE rnError' = messageOr(r[2], <<"Failed to save">>) /\ UNCHANGED rnSections
    /\ IF rnPatches[i].kind = "save"
       THEN rnSaving' = rnSaving \ {rnPatches[i].op.itemId} /\ UNCHANGED rnExcluding
       ELSE IF rnPatches[i].kind = "exclude"
       THEN rnExcluding' = rnExcluding \ {rnPatches[i].op.itemId} /\ UNCHANGED rnSaving
       ELSE UNCHANGED <<rnSaving, rnExcluding>>
    /\ rnPatches' = [rnPatches EXCEPT ![i].phase = "done"]
    /\ rnLast' = "patchResponse"
    /\ UNCHANGED <<outsideNotes, regenVars, rnIsLoading, rnBackend, rnRefresh, rnOps>>

NotesInit ==
  /\ envApiBaseUrl = <<"u">>
  /\ AuthAside
  /\ StoreUnmounted
  /\ ClustersUnmounted
  /\ SearchUnmounted
  /\ NotesMounted
  /\ DetailUnmounted

----------------------------------------------------------------------------
(* Regenerating one release note (regenerateItem, ReleaseNotesPage.tsx      *)
(* 89-138). A regeneration holds the item, the state of its POST, of its    *)
(* setInterval and of its setTimeout with the milliseconds until each is    *)
(* due, and the number of poll requests awaited. Time passes in poll        *)
(* periods; a timer that is due fires before more time passes.              *)

\* setInterval(..., 2000)
REGENERATE_POLL_MS == 2000

\* setTimeout(..., 60000)
REGENERATE_TIMEOUT_MS == 60000

\* the text a finished regeneration gives the item
RegeneratedText == "t2"

\* poll requests of one regeneration awaited at a time
MaxInFlight == 2

\* the backend marking an item, or finishing its regeneration
withStatus(sections, itemId, st, text) ==
  mapItems(sections,
           LAMBDA item : IF item.id = itemId
                         THEN [item EXCEPT !.status = st, !.text = text]
                         ELSE item)

\* next.delete(itemId)
withoutItem(prev, itemId) == prev \ {itemId}

Regeneration(itemId) ==
  [itemId |-> itemId, post |-> "pending", interval |-> "none", nextTick |-> 0,
   timeout |-> "none", timeoutIn |-> 0, inFlight |-> 0]

\* item.status === 'regenerating' || regeneratingItems.has(item.id)
badgeShown(sections, regeneratingItems, itemId) ==
  \/ findItem(sections, itemId).status = "regenerating"
  \/ itemId \in regeneratingItems

\* the item's regenerate button, up to the await of regenerateItem()
RegenerateClick ==
  /\ NotesShown
  /\ rnOps < MaxNoteOps
  /\ \E itemId \in ItemIds :
       /\ findItem(rnSections[2], itemId).source = "commit"
       /\ ~badgeShown(rnSections[2], rnRegenerating, itemId)
       /\ rnRegenerating' = rnRegenerating \cup {itemId}
       /\ rnRegens' = Append(rnRegens, Regeneration(itemId))
  /\ rnError' = Null
  /\ rnOps' = rnOps + 1
  /\ rnLast' = "regenerate"
  /\ rnHandled' = <<0, "none">>
  /\ rnBefore' = Null
  /\ UNCHANGED <<outsideNotes, rnSections, rnIsLoading, rnSaving, rnExcluding,
                 rnBackend, rnRefresh, rnPatches>>

\* regenerateItem() after `await api.regenerateReleaseNoteItem(...)`: the
\* backend has marked the item and the timers are started, or the POST failed
RegenerateResponse ==
  \E r \in 1..Len(rnRegens) :
    LET itemId == rnRegens[r].itemId IN
    /\ rnRegens[r].post = "pending"
    /\ \/ /\ rnBackend' = withStatus(rnBackend, itemId, "regenerating",
                                     findItem(rnBackend, itemId).text)
          /\ rnRegens' = [rnRegens EXCEPT ![r].post = "ok",
                                          ![r].interval = "active",
                                          ![r].nextTick = REGENERATE_POLL_MS,
                                          ![r].timeout = "pending",
                                          ![r].timeoutIn = REGENERATE_TIMEOUT_MS]
          /\ rnHandled' = <<r, "ok">>
          /\ UNCHANGED <<rnError, rnRegenerating>>
       \/ /\ \E res \in NotesFailures :
               rnError' = messageOr(requestJson(res)[2], <<"Failed to regenerate">>)
          /\ rnRegenerating' = withoutItem(rnRegenerating, itemId)
          /\ rnRegens' = [rnRegens EXCEPT ![r].post = "failed"]
          /\ rnHandled' = <<r, "throw">>
          /\ UNCHANGED rnBackend
    /\ rnLast' = "regenerateResponse"
    /\ rnBefore' = rnSections
    /\ UNCHANGED <<outsideNotes, rnSections, rnIsLoading, rnSaving, rnExcluding,
                   rnRefresh, rnPatches, rnOps>>

\* the backend finishes regenerating an item
RegenerationFinishes ==
  /\ \E itemId \in ItemIds :
       /\ findItem(rnBackend, itemId).status = "regenerating"
       /\ rnBackend' = withStatus(rnBackend, itemId, "ready", RegeneratedText)
  /\ rnLast' = "regenerationFinishes"
  /\ rnHandled' = <<0, "none">>
  /\ rnBefore' = Null
  /\ UNCHANGED <<outsideNotes, regenVars, rnSections, rnIsLoading, rnError,
                 rnSaving, rnExcluding, rnRefresh, rnPatches, rnOps>>

\* a timer of the page that is set and has not fired
timerPending(g) == g.interval = "active" \/ g.timeout = "pending"

\* one poll period passes: no timer is due
TimePasses ==
  /\ \E r \in 1..Len(rnRegens) : timerPending(rnRegens[r])
  /\ \A r \in 1..Len(rnRegens) :
       /\ rnRegens[r].interval = "active" => rnRegens[r].nextTick > 0
       /\ rnRegens[r].timeout = "pending" => rnRegens[r].timeoutIn > 0
  /\ rnRegens' =
       [r \in 1..Len(rnRegens) |->
          [rnRegens[r] EXCEPT
             !.nextTick = IF rnRegens[r].interval = "active"
                          THEN @ - REGENERATE_POLL_MS ELSE @,
             !.timeoutIn = IF rnRegens[r].timeout = "pending"
                           THEN @ - REGENERATE_POLL_MS ELSE @]]
  /\ rnLast' = "timePasses"
  /\ rnHandled' = <<0, "none">>
  /\ rnBefore' = Null
  /\ UNCHANGED <<outsideNotes, rnRegenerating, rnSections, rnIsLoading,
                 rnError, rnSaving, rnExcluding, rnBackend, rnRefresh,
                 rnPatches, rnOps>>

\* the interval's callback, up to its await: one more poll request
RegenPollTick ==
  \E r \in 1..Len(rnRegens) :
    /\ rnRegens[r].interval = "active"
    /\ rnRegens[r].nextTick = 0
    /\ rnRegens[r].inFlight < MaxInFlight
    /\ rnRegens' = [rnRegens EXCEPT ![r].inFlight = @ + 1,
                                    ![r].nextTick = REGENERATE_POLL_MS]
    /\ rnLast' = "regenPollTick"
    /\ rnHandled' = <<r, "none">>
    /\ rnBefore' = Null
    /\ UNCHANGED <<outsideNotes, rnRegenerating, rnSections, rnIsLoading,
                   rnError, rnSaving, rnExcluding, rnBackend, rnRefresh,
                   rnPatches, rnOps>>

\* clearInterval(pollInterval)
clearInterval(state) == IF state = "active" THEN "cleared" ELSE state

\* the interval's callback after `await api.getReleaseNotesArtifact(...)`
RegenPollResponse ==
  \E r \in 1..Len(rnRegens) :
    LET itemId == rnRegens[r].itemId IN
    /\ rnRegens[r].inFlight > 0
    /\ \E res \in {Response(TRUE, "200", "OK", Null, <<"list", rnBackend>>)}
                    \cup NotesFailures :
         LET got == requestJson(res) IN
         /\ rnHandled' = <<r, got[1]>>
         /\ IF got[1] = "ok"
            THEN IF findItem(got[2][2], itemId).status # "regenerating"
                 THEN /\ rnRegens' = [rnRegens EXCEPT ![r].inFlight = @ - 1,
                                                      ![r].interval = clearInterval(@)]
                      /\ rnRegenerating' = withoutItem(rnRegenerating, itemId)
                      /\ rnSections' = got[2]
                 ELSE /\ rnRegens' = [rnRegens EXCEPT ![r].inFlight = @ - 1]
                      /\ UNCHANGED <<rnRegenerating, rnSections>>
            ELSE /\ rnRegens' = [rnRegens EXCEPT ![r].inFlight = @ - 1,
                                                 ![r].interval = clearInterval(@)]
                 /\ rnRegenerating' = withoutItem(rnRegenerating, itemId)
                 /\ UNCHANGED rnSections
    /\ rnLast' = "regenPollResponse"
    /\ rnBefore' = rnSections
    /\ UNCHANGED <<outsideNotes, rnIsLoading, rnError, rnSaving, rnExcluding,
                   rnBackend, rnRefresh, rnPatches, rnOps>>

\* the 60 s timer's callback
RegenTimeout ==
  \E r \in 1..Len(rnRegens) :
    /\ rnRegens[r].timeout = "pending"
    /\ rnRegens[r].timeoutIn = 0
    /\ rnRegens' = [rnRegens EXCEPT ![r].timeout = "fired",
                                    ![r].interval = clearInterval(@)]
    /\ rnRegenerating' = withoutItem(rnRegenerating, rnRegens[r].itemId)
    /\ rnLast' = "regenTimeout"
    /\ rnHandled' = <<r, "none">>
    /\ rnBefore' = Null
    /\ UNCHANGED <<outsideNotes, rnSections, rnIsLoading, rnError, rnSaving,
                   rnExcluding, rnBackend, rnRefresh, rnPatches, rnOps>>

NotesNext ==
  \/ NotesRefreshClick
  \/ NotesRefreshResponse
  \/ UpdateLocalText
  \/ SaveClick
  \/ ExcludeClick
  \/ AddItemClick
  \/ PatchHandled
  \/ PatchResponse
  \/ RegenerateClick
  \/ RegenerateResponse
  \/ RegenerationFinishes
  \/ TimePasses
  \/ RegenPollTick
  \/ RegenPollResponse
  \/ RegenTimeout

NotesSpec == NotesInit /\ [][NotesNext]_vars

----------------------------------------------------------------------------
(* Issue detail page (src/unnamed/part_005): the route parameter is parsed, *)
(* the repo is the query string's or the context's, the effect loads the    *)
(* issue's detail whenever the repo or the parsed number changes, and the   *)
(* responses of the loads arrive in any order. Route parameters are         *)
(* sequences of the characters 1, 2 and a.                                  *)

\* route and repo changes after the page is mounted
MaxNavs == 2

NaN == <<"NaN">>

DigitValue == ("1" :> 1) @@ ("2" :> 2)

\* the leading decimal digits of a string
RECURSIVE leadingDigits(_)
leadingDigits(s) ==
  IF s = <<>> \/ Head(s) \notin DOMAIN DigitValue THEN <<>>
  ELSE <<Head(s)>> \o leadingDigits(Tail(s))

RECURSIVE decimal(_)
decimal(ds) ==
  IF ds = <<>> THEN 0
  ELSE 10 * decimal(SubSeq(ds, 1, Len(ds) - 1)) + DigitValue[ds[Len(ds)]]

\* issueNumber ? Number.parseInt(issueNumber, 10) : Number.NaN
parsedIssueNumber(issueNumber) ==
  IF issueNumber = Null \/ issueNumber = <<>> \/ leadingDigits(issueNumber) = <<>>
  THEN NaN
  ELSE <<"number", decimal(leadingDigits(issueNumber))>>

Params == { <<"1">>, <<"2">>, <<"1", "a">>, <<"a">> }

\* the `repo` parameter of the URL: absent, blank, or a repo between blanks
QueryRepos == { Null, <<SP>>, <<SP, "microsoft/terminal", SP>> }

\* searchParams.get('repo')?.trim() || currentRepo
detailRepo(query, currentRepo) ==
  IF query = Null \/ trim(query) = <<>> THEN currentRepo ELSE trim(query)

\* what requestJson throws: an ApiError, or the TypeError of fetch
thrownBy(res) ==
  IF res[1] = "reject" THEN [status |-> Null, message |-> res[2]]
  ELSE [status |-> <<res[3]>>,
        message |-> IF res[5] # Null THEN res[5] ELSE <<res[3], res[4]>>]

\* the status is never read
getErrorStatusNone(e) == Null

getErrorStatus(e) == e.status

getErrorMessage(e) ==
  IF e.message = Null THEN <<"Failed to load issue details">> ELSE e.message

INVALID_ISSUE_NUMBER == <<"Invalid issue number">>

IssueDetail(repo, n) == <<"detail", repo, n>>

\* what GET /issues/{n}/detail?repo=... may answer
DetailResponses(repo, n) ==
  { Response(TRUE, "200", "OK", Null, IssueDetail(repo, n)),
    Response(FALSE, "404", "Not Found", <<"Issue not found">>, Null),
    Response(FALSE, "500", "Internal Server Error", Null, Null),
    <<"reject", <<"Failed to fetch">>>> }

\* a load() awaiting its request; `alone` records that since it began no
\* other load failed and no effect found an invalid number
DetailLoad(repo, n) ==
  [repo |-> repo, issue |-> n, phase |-> "pending", alone |-> TRUE]

\* the pending loads after something else wrote error or notFound
disturbed(pending) ==
  [k \in 1..Len(pending) |->
     IF pending[k].phase = "pending" THEN [pending[k] EXCEPT !.alone = FALSE]
     ELSE pending[k]]

\* the page right after its mount effect ran for the URL
DetailMounted ==
  /\ idParam \in Params
  /\ idQuery \in QueryRepos
  /\ idCurrentRepo = REPO
  /\ idDetail = Null
  /\ idNotFound = FALSE
  /\ IF parsedIssueNumber(idParam) = NaN
     THEN idError = INVALID_ISSUE_NUMBER /\ idIsLoading = FALSE /\ idLoads = <<>>
     ELSE /\ idError = Null
          /\ idIsLoading = TRUE
          /\ idLoads = <<DetailLoad(detailRepo(idQuery, idCurrentRepo),
                                    parsedIssueNumber(idParam)[2])>>
  /\ idNavs = 0
  /\ idLast = "mount"
  /\ idHandled = <<0, "none">>

\* the effect on [api, repo, parsedIssueNumber] after a render in which the
\* repo became `repo` and the parsed number `parsed`: it runs when either
\* differs (NaN is the same as NaN), up to the await of load()
detailEffect(repo, parsed) ==
  IF /\ repo = detailRepo(idQuery, idCurrentRepo)
     /\ parsed = parsedIssueNumber(idParam)
  THEN UNCHANGED <<idIsLoading, idError, idNotFound, idLoads>>
  ELSE IF parsed = NaN
  THEN /\ idError' = INVALID_ISSUE_NUMBER
       /\ idLoads' = disturbed(idLoads)
       /\ UNCHANGED <<idIsLoading, idNotFound>>
  ELSE /\ idIsLoading' = TRUE
       /\ idError' = Null
       /\ idNotFound' = FALSE
       /\ idLoads' = Append(idLoads, DetailLoad(repo, parsed[2]))

\* the URL changes to another issue number, another `repo` query, or both
RouteChange ==
  /\ idNavs < MaxNavs
  /\ \E p \in Params, q \in QueryRepos :
       /\ <<p, q>> # <<idParam, idQuery>>
       /\ idParam' = p
       /\ idQuery' = q
       /\ detailEffect(detailRepo(q, idCurrentRepo), parsedIssueNumber(p))
  /\ idNavs' = idNavs + 1
  /\ idLast' = "routeChange"
  /\ idHandled' = <<0, "none">>
  /\ UNCHANGED <<outsideDetail, idCurrentRepo, idDetail>>

\* the header's repo input calls setRepo of RepoContext
HeaderSetRepo ==
  /\ idNavs < MaxNavs
  /\ \E repo \in Repos \ {idCurrentRepo} :
       /\ idCurrentRepo' = repo
       /\ detailEffect(detailRepo(idQuery, repo), parsedIssueNumber(idParam))
  /\ idNavs' = idNavs + 1
  /\ idLast' = "setRepo"
  /\ idHandled' = <<0, "none">>
  /\ UNCHANGED <<outsideDetail, idParam, idQuery, idDetail>>

\* load() after `await api.getIssueDetail(...)`
DetailResponse ==
  \E i \in 1..Len(idLoads) :
    /\ idLoads[i].phase = "pending"
    /\ \E res \in DetailResponses(idLoads[i].repo, idLoads[i].issue) :
         /\ idHandled' = <<i, IF res[1] = "reject" THEN "reject" ELSE res[3]>>
         /\ IF res[1] = "response" /\ res[2]
            THEN /\ idDetail' = res[6]
                 /\ idLoads' = [idLoads EXCEPT ![i].phase = "done"]
                 /\ UNCHANGED <<idError, idNotFound>>
            ELSE LET e == thrownBy(res) IN
                 /\ idLoads' = disturbed([idLoads EXCEPT ![i].phase = "done"])
                 /\ IF getErrorStatus(e) = <<"404">>
                    THEN /\ idNotFound' = TRUE
                         /\ idDetail' = Null
                         /\ UNCHANGED idError
                    ELSE /\ idError' = getErrorMessage(e)
                         /\ UNCHANGED <<idDetail, idNotFound>>
    /\ idIsLoading' = FALSE
    /\ idLast' = "response"
    /\ UNCHANGED <<outsideDetail, idParam, idQuery, idCurrentRepo, idNavs>>

DetailInit ==
  /\ envApiBaseUrl = <<"u">>
  /\ AuthAside
  /\ StoreUnmounted
  /\ ClustersUnmounted
  /\ SearchUnmounted
  /\ NotesUnmounted
  /\ DetailMounted

DetailNext == RouteChange \/ HeaderSetRepo \/ DetailResponse

DetailSpec == DetailInit /\ [][DetailNext]_vars




----------------------------------------------------------------------------
(* Properties of the auth session manager *)

BaseUrlMissing == envApiBaseUrl = Null \/ trim(envApiBaseUrl) = <<>>
ProbeConfigured == envProbe \in {<<"true">>, <<"TRUE">>, <<"True">>}

\* the stored cache text is a complete entry {token, user, checkedAt}
WellFormedCache ==
  /\ lsAuthCache # Null
  /\ lsAuthCache[1] = "json"
  /\ lsAuthCache[2] # Null
  /\ lsAuthCache[2][3][1] = "number"
  /\ lsAuthCache[2][2] # Null
  /\ lsAuthCache[2][2][1] # Null
  /\ lsAuthCache[2][2][2] # Null

CacheToken == lsAuthCache[2][1]
CacheUser == lsAuthCache[2][2]
CacheAge == now - lsAuthCache[2][3][2]

\* C1: a non-null user is held only while status is 'authenticated'; status
\* 'checking' or 'unauthenticated' always goes with user = null.
C1_UserOnlyWhileAuthenticated ==
  /\ user # Null => status = "authenticated"
  /\ status \in {"checking", "unauthenticated"} => user = Null

\* signOut has demoted a verified session
C1_Witness ==
  /\ last = "signOut"
  /\ lastResp[1] = "ok"
  /\ status = "unauthenticated"
  /\ user = Null

\* C2: when the verification of a stored token fails, the handler leaves no
\* stored token, no cache entry, status 'unauthenticated', user null and the
\* failure's message as the error, and no request is issued afterwards in
\* that page load.
C2_VerifyFailureClearsAuth ==
  /\ [][(pc = "verify" /\ last' = "verifyResponse" /\ lastResp'[1] = "throw")
          => /\ lsAuthToken' = Null
             /\ lsLegacyToken' = Null
             /\ lsAuthCache' = Null
             /\ status' = "unauthenticated"
             /\ user' = Null
             /\ error' = lastResp'[2][2]
             /\ netRequests' = netRequests]_vars
  /\ [][(pc = "done" /\ pc' # "mount") => netRequests' = netRequests]_vars

\* a failed verification of a token that had a cache entry
C2_Witness ==
  /\ last = "verifyResponse"
  /\ lastResp[1] = "throw"
  /\ provisional
  /\ error = <<"401", "Unauthorized">>

\* C3: the state after verification is a function of the verification outcome
\* alone, whether or not boot had set the cached identity provisionally: on
\* success the backend's identity, a cache entry {token, identity, now} and no
\* error; on failure 'unauthenticated', no user, the failure's message.
C3_VerificationOverwritesProvisional ==
  [][(pc = "verify" /\ last' = "verifyResponse")
       => IF lastResp'[1] = "ok"
          THEN /\ status' = "authenticated"
               /\ user' = lastResp'[2]
               /\ error' = Null
               /\ lsAuthCache' = <<"json", <<bootToken, lastResp'[2], <<"number", now>>>>>>
          ELSE /\ status' = "unauthenticated"
               /\ user' = Null
               /\ error' = lastResp'[2][2]]_vars

\* the backend returned an identity other than the provisional cached one
C3_Witness ==
  /\ last = "verifyResponse"
  /\ loads = 1
  /\ provisional
  /\ lastResp[1] = "ok"
  /\ user = AuthUser(LoginOf(TokenA), <<"extra-allowlist">>)
  /\ CacheUser = user

\* C4: readAuthCache(token) returns the cached user when the entry is for
\* that token and younger than the TTL, and null when it is older than the
\* TTL, is for another token, or is missing or malformed.
C4_ReadAuthCache ==
  \A t \in {TokenA, TokenB} :
    LET r == readAuthCache(t, lsAuthCache, now) IN
    /\ ~WellFormedCache => r = Null
    /\ WellFormedCache =>
         /\ (CacheToken = t /\ CacheAge < AUTH_CACHE_TTL_MS) => r = CacheUser
         /\ CacheAge > AUTH_CACHE_TTL_MS => r = Null
         /\ CacheToken # t => r = Null

\* boot used an entry aged 4 min 59 s
C4_Witness ==
  /\ pc = "verify"
  /\ provisional
  /\ WellFormedCache
  /\ CacheAge = AUTH_CACHE_TTL_MS - 1000
  /\ user = CacheUser

\* C5 as stated: an entry whose age is exactly the TTL is expired.
C5_ExactTtlExpired ==
  (WellFormedCache /\ CacheAge = AUTH_CACHE_TTL_MS)
    => readAuthCache(CacheToken, lsAuthCache, now) = Null

\* C5, amended: an entry whose age is exactly the TTL is still valid;
\* readAuthCache returns its user (it expires once older than the TTL).
C5_ExactTtlStillValid ==
  (WellFormedCache /\ CacheAge = AUTH_CACHE_TTL_MS)
    => readAuthCache(CacheToken, lsAuthCache, now) = CacheUser

\* boot used an entry aged exactly 5 min
C5_Witness ==
  /\ pc = "verify"
  /\ provisional
  /\ WellFormedCache
  /\ CacheAge = AUTH_CACHE_TTL_MS
  /\ user = CacheUser

\* C6: readAuthCache(t) never returns an identity cached for another token,
\* and the identity boot shows provisionally is the one of the token it
\* verifies.
C6_CacheKeyedByToken ==
  /\ \A t \in {TokenA, TokenB} :
       LET r == readAuthCache(t, lsAuthCache, now) IN
       r # Null => r[1] = LoginOf(t)
  /\ (pc = "verify" /\ user # Null) => user[1] = LoginOf(bootToken)

\* the stored token was replaced while a fresh entry of the old token remains
C6_Witness ==
  /\ pc = "verify"
  /\ bootToken = TokenB
  /\ WellFormedCache
  /\ CacheToken = TokenA
  /\ CacheAge < AUTH_CACHE_TTL_MS
  /\ ~provisional

\* C7: signOut, from any state, leaves no token under either key, no cache
\* entry, status 'unauthenticated', user null, error null, and issues no
\* request or redirect.
C7_SignOutClearsEverything ==
  [][last' = "signOut"
       => /\ lsAuthToken' = Null
          /\ lsLegacyToken' = Null
          /\ lsAuthCache' = Null
          /\ status' = "unauthenticated"
          /\ user' = Null
          /\ error' = Null
          /\ netRequests' = netRequests
          /\ redirects' = redirects]_vars

\* signOut while the verification of the stored token is in flight
C7_Witness ==
  /\ last = "signOut"
  /\ pc = "verify"
  /\ provisional
  /\ lsAuthToken = Null

\* C8: with the base URL configured, no token after fragment processing and
\* the probe not enabled, boot settles 'unauthenticated' and the page load
\* issues no request.
C8_NoTokenNoProbeNoRequest ==
  (pc \in {"probe", "verify", "done"} /\ ~BaseUrlMissing /\ bootToken = Null
     /\ ~ProbeConfigured)
    => /\ status = "unauthenticated"
       /\ pc = "done"
       /\ netRequests = 0

\* boot surfaced a fragment error and found no token
C8_Witness ==
  /\ last = "boot"
  /\ ~BaseUrlMissing
  /\ ~ProbeConfigured
  /\ bootToken = Null
  /\ applied[2] # Null
  /\ status = "unauthenticated"

\* C9: without a base URL boot forces 'unauthenticated' with a configuration
\* error, and boot, verifyToken and signInWithGithub issue no request and no
\* redirect.
C9_MissingBaseUrlHardStop ==
  BaseUrlMissing
    => /\ netRequests = 0
       /\ redirects = 0
       /\ pc \in {"mount", "done"}
       /\ verifyToken(getApiBaseUrl(envApiBaseUrl)) = "throw"
       /\ last = "boot" => (status = "unauthenticated" /\ error = MISSING_BASE_URL)
       /\ last = "signInWithGithub" => error = MISSING_BASE_URL

\* signInWithGithub was refused for lack of a base URL
C9_Witness ==
  /\ BaseUrlMissing
  /\ last = "signInWithGithub"
  /\ lsAuthToken # Null
  /\ error = MISSING_BASE_URL

\* the fragment carries a non-blank token or a non-empty error code
Carries(f) ==
  f # NoFragment /\ ((truthy(f[1]) /\ truthy(trim(f[1]))) \/ truthy(f[2]))

\* C10 as stated: after boot has run on a URL whose fragment carries a token
\* or an error code, the URL no longer contains the fragment.
C10_FragmentAlwaysStripped ==
  (pc # "mount" /\ Carries(bootHash)) => hash = NoFragment

\* C10, amended: with the base URL configured, after boot has run on a
\* fragment carrying a non-blank token or a non-empty error code the URL has
\* no fragment; and in every case boot on a reload stores no token and
\* surfaces no error from the fragment.
C10_FragmentConsumedOnce ==
  /\ (pc # "mount" /\ ~BaseUrlMissing /\ Carries(bootHash)) => hash = NoFragment
  /\ (pc # "mount" /\ reloaded) => applied = <<Null, Null>>

\* boot ran again after a load that had stored the fragment's token
C10_Witness ==
  /\ reloaded
  /\ pc # "mount"
  /\ prevApplied[1] = TokenB
  /\ hash = NoFragment
  /\ bootToken = TokenB

\* C11: getStoredAuthToken is null when neither key is set and the trimmed
\* legacy value when only the legacy key is set; after boot stored a
\* fragment's token with setStoredAuthToken the primary key holds the trimmed
\* token, the legacy key is gone and getStoredAuthToken returns the trimmed
\* token; at most one of the two keys is set.
C11_TokenStorage ==
  LET got == getStoredAuthToken(lsAuthToken, lsLegacyToken) IN
  /\ (lsAuthToken = Null /\ lsLegacyToken = Null) => got = Null
  /\ (lsAuthToken = Null /\ lsLegacyToken = <<SP, "b">>) => got = TokenB
  /\ (last = "boot" /\ pc = "verify" /\ applied[1] = Null /\ lsAuthToken = Null
        /\ lsLegacyToken = <<SP, "b">>) => bootToken = TokenB
  /\ (last = "boot" /\ ~BaseUrlMissing /\ bootHash # NoFragment
        /\ bootHash[1] = <<SP, "b", SP>>)
       => (lsAuthToken = TokenB /\ lsLegacyToken = Null /\ got = TokenB)
  /\ (last = "boot" /\ ~BaseUrlMissing /\ bootHash # NoFragment
        /\ bootHash[1] = TokenA)
       => (lsAuthToken = TokenA /\ lsLegacyToken = Null /\ got = TokenA)
  /\ ~(lsAuthToken # Null /\ lsLegacyToken # Null)

\* boot stored the token of the fragment ' b '
C11_Witness ==
  /\ last = "boot"
  /\ bootHash # NoFragment
  /\ bootHash[1] = <<SP, "b", SP>>
  /\ lsAuthToken = TokenB
  /\ bootToken = TokenB

\* C12: if every request boot issues completes, status leaves 'checking',
\* and once it has left it never becomes 'checking' again in that page load.
C12_BootLeavesChecking ==
  /\ (status = "checking") ~> (status \in {"authenticated", "unauthenticated"})
  /\ [][status # "checking" => status' # "checking"]_vars

\* the probe settled a load that had no token
C12_Witness ==
  /\ last = "probeResponse"
  /\ lastResp[1] = "throw"
  /\ status = "unauthenticated"

----------------------------------------------------------------------------
(* Session store *)

GeneratingIds(sessions) ==
  {sessions[n].id : n \in {m \in 1..Len(sessions) : sessions[m].status = "generating"}}

\* C13: a poll tick requests the job lists of exactly the sessions that are
\* 'generating' in its snapshot (A and C for {A: generating, B: ready,
\* C: generating}), and when a tick is applied every session it did not
\* request is unchanged and a requested one changes in its jobs only.
C13_PollScopedToGenerating ==
  /\ [][stLast' = "pollTick" =>
          /\ stIssued' = {Request("listJobs", id, "poll") : id \in GeneratingIds(stSessions)}
          /\ ((Len(stSessions) = 3 /\ stSessions[1].id = SessA /\ stSessions[2].id = SessB
                 /\ stSessions[3].id = SessC /\ stSessions[1].status = "generating"
                 /\ stSessions[2].status = "ready" /\ stSessions[3].status = "generating")
                => stIssued' = {Request("listJobs", SessA, "poll"),
                                Request("listJobs", SessC, "poll")})]_vars
  /\ [][stLast' = "pollJobsResponse" =>
          \E i \in Indexes(stPolls) :
            /\ Len(stSessions') = Len(stSessions)
            /\ \A n \in 1..Len(stSessions) :
                 /\ (\A k \in 1..Len(stPolls[i].req) : stPolls[i].req[k] # stSessions[n].id)
                      => stSessions'[n] = stSessions[n]
                 /\ stSessions[n].id = SessB => stSessions'[n] = stSessions[n]
                 /\ [stSessions'[n] EXCEPT !.jobs = <<>>] = [stSessions[n] EXCEPT !.jobs = <<>>]]_vars

\* a tick over {A, B, C} was applied: A's jobs are the completed ones it
\* fetched, B still has the jobs the refresh gave it
C13_Witness ==
  /\ stLast = "pollJobsResponse"
  /\ stOutcome = <<"ok", "poll">>
  /\ stPolls = <<>>
  /\ Len(stSessions) = 3
  /\ stSessions[1].status = "generating"
  /\ stSessions[1].jobs = mapJobs(JobsCompleted)
  /\ stSessions[2].id = SessB
  /\ stSessions[3].status = "generating"

\* C14: a failed job-list request of a poll tick changes neither the
\* sessions nor the store's error, and the poll interval stays installed.
C14_PollFailureSwallowed ==
  /\ [][(stLast' = "pollJobsResponse" /\ stOutcome'[1] = "throw") =>
          /\ stSessions' = stSessions
          /\ stError' = stError
          /\ stInterval']_vars
  /\ []((stLast = "pollJobsResponse" /\ stOutcome[1] = "throw" /\ stOps < MaxOps)
          => ENABLED PollTick)

\* a poll request failed over a loaded store that shows no error
C14_Witness ==
  /\ stLast = "pollJobsResponse"
  /\ stOutcome = <<"throw", "poll">>
  /\ Len(stSessions) = 3
  /\ stError = Null
  /\ stInterval

\* C15: the requests a timer issued for a session's job list (the 5 s poll
\* or the 3 s auto-refresh of the sessions page) are for sessions that are
\* 'generating' in the store.
C15_TimersRequestGeneratingOnly ==
  \A rq \in stIssued :
    (rq[1] = "listJobs" /\ rq[3] \in {"poll", "timer"}) =>
      \A n \in 1..Len(stSessions) :
        stSessions[n].id = rq[2] => stSessions[n].status = "generating"

\* the jobs a refresh() run holds for each listed session
FetchedOrFetchable(run, k) ==
  IF k \in run.pending
  THEN {mapJobs(jobs) : jobs \in JobLists(run.items[k].id)}
  ELSE {mapJobs(run.jobs[k])}

\* C16: refresh() leaves the collection alone until the job list of every
\* listed session is in, then installs the hydrated list in one step; a
\* failed fetch keeps the collection and sets the store's error to the
\* failure message; no listed session is ever shown without its jobs.
C16_RefreshReplacesAtomically ==
  /\ [][(stLast' = "refreshJobsResponse" /\ stOutcome'[1] = "ok") =>
          IF Len(stRefreshes') = Len(stRefreshes)
          THEN stSessions' = stSessions /\ stError' = stError
          ELSE \E i \in Indexes(stRefreshes) :
                 LET run == stRefreshes[i] IN
                 /\ Cardinality(run.pending) = 1
                 /\ Len(stSessions') = Len(run.items)
                 /\ \A k \in 1..Len(run.items) :
                      /\ stSessions'[k].id = run.items[k].id
                      /\ stSessions'[k].status = run.items[k].status
                      /\ stSessions'[k].jobs \in FetchedOrFetchable(run, k)]_vars
  /\ [][(stLast' = "refreshListResponse" /\ stOutcome'[1] = "throw") =>
          /\ stSessions' = stSessions
          /\ stError' = <<"Failed to fetch">>
          /\ ~stIsLoading']_vars
  /\ [][(stLast' = "refreshJobsResponse" /\ stOutcome'[1] = "throw") =>
          /\ stSessions' = stSessions
          /\ stError' = <<"500", "Internal Server Error">>
          /\ ~stIsLoading']_vars
  /\ [](\A n \in 1..Len(stSessions) :
          stSessions[n].id \in {SessA, SessB, SessC, SessN} => stSessions[n].jobs # <<>>)

\* a job-list fetch of a second refresh failed: the three sessions of the
\* first one are still shown, with the failure message
C16_Witness ==
  /\ stLast = "refreshJobsResponse"
  /\ stOutcome[1] = "throw"
  /\ Len(stSessions) = 3
  /\ stSessions[2].jobs = mapJobs(JobsCompleted)
  /\ stError = <<"500", "Internal Server Error">>
  /\ ~stIsLoading

\* C17: without a backend createSession issues no request and prepends one
\* synthetic session: 'generating', no jobs, the given name, repository and
\* refs, id session-<timestamp>; the sessions already there are unchanged.
C17_LocalCreate ==
  [][(stLast' = "createSession" /\ stOps' = stOps + 1 /\ sessionApi = Null) =>
       /\ stIssued' = {}
       /\ Len(stSessions') = Len(stSessions) + 1
       /\ stSessions'[1].status = "generating"
       /\ stSessions'[1].jobs = <<>>
       /\ stSessions'[1].name = "n"
       /\ stSessions'[1].repoFullName = "microsoft/PowerToys"
       /\ stSessions'[1].baseRef = "v2"
       /\ stSessions'[1].headRef = "main"
       /\ Len(stSessions'[1].id) = 2
       /\ stSessions'[1].id[1] = "session-"
       /\ stSessions'[1].id[2] = stNow'
       /\ \A n \in 1..Len(stSessions) : stSessions'[n + 1] = stSessions[n]
       /\ (stSessions = <<>> => Len(stSessions') = 1)
       /\ stRefreshes' = <<>> /\ stCreates' = <<>> /\ stPolls' = <<>>]_vars

\* two sessions created locally one millisecond apart, the later one first
C17_Witness ==
  /\ stLast = "createSession"
  /\ sessionApi = Null
  /\ Len(stSessions) = 2
  /\ stSessions[1].id = <<"session-", 1>>
  /\ stSessions[2].id = <<"session-", 0>>
  /\ stSessions[1].status = "generating"
  /\ stIssued = {}

----------------------------------------------------------------------------
(* Issue-clusters page *)

\* C18: a cluster or top-issues response whose request is no longer the
\* most recently issued one is discarded: the displayed list, the error,
\* the cache and the loading flag are unchanged; a successful response to
\* the most recent request is displayed and cached under its key.
C18_StaleResponsesDiscarded ==
  /\ [][(clLast' = "clustersResponse" /\ clHandled'[2] # clClustersReqId) =>
          /\ clClusters' = clClusters
          /\ clTruncated' = clTruncated
          /\ clLimit' = clLimit
          /\ clClustersCache' = clClustersCache
          /\ clError' = clError
          /\ clClustersLoading' = clClustersLoading]_vars
  /\ [][(clLast' = "topIssuesResponse" /\ clHandled'[2] # clTopReqId) =>
          /\ clTopIssues' = clTopIssues
          /\ clTopCache' = clTopCache
          /\ clError' = clError
          /\ clTopLoading' = clTopLoading]_vars
  /\ [][(clLast' = "clustersResponse" /\ clHandled'[2] = clClustersReqId
           /\ clHandled'[3] = "ok" /\ clInFlight' # clInFlight) =>
          \E req \in clInFlight \ clInFlight' :
            /\ req.id = clClustersReqId
            /\ clClusters' \in {orEmpty(b[1]) : b \in ClusterBodies(req.product)}
            /\ clClustersCache'[req.key] = <<clClusters', clTruncated', clLimit'>>]_vars
  /\ [][(clLast' = "topIssuesResponse" /\ clHandled'[2] = clTopReqId
           /\ clHandled'[3] = "ok" /\ clInFlight' # clInFlight) =>
          \E req \in clInFlight \ clInFlight' :
            /\ req.id = clTopReqId
            /\ clTopIssues' \in {orEmpty(b[1]) : b \in TopIssueBodies(req.product)}
            /\ clTopCache'[req.key] = clTopIssues']_vars

\* the response to the query for p1 arrived after the one for p2 and was
\* dropped: the page shows and caches p2's clusters only
C18_Witness ==
  /\ clLast = "clustersResponse"
  /\ clHandled = <<"clusters", 1, "ok">>
  /\ clClustersReqId = 2
  /\ clProduct = <<"p2">>
  /\ clClusters = <<<<"cluster", <<"p2">>, 1>>>>
  /\ DOMAIN clClustersCache = {clustersKey(REPO, Null, <<"p2">>)}
  /\ clError = Null

----------------------------------------------------------------------------
(* Ref search combobox *)

\* what a response to a search for the query may show
ShownFor(query) == {searchCommits(outcome)[2] : outcome \in SearchOutcomes(query)}

\* C19: when the response of an older commit search arrives after the
\* newest search has returned its results, the commits displayed are those
\* of the newest search.
C19_LatestSearchWins ==
  (/\ rsLast = "searchResponse"
   /\ rsHandled < Len(rsQueries)
   /\ rsOutcomes[Len(rsQueries)] = "return"
   /\ rsTimer = Null
   /\ rsSearch = rsQueries[Len(rsQueries)])
    => rsCommits \in ShownFor(rsQueries[Len(rsQueries)])

----------------------------------------------------------------------------
(* Release-notes page *)

\* C20: after a successful patch the local sections are exactly the
\* sections of the response body, whatever local edits were held.
C20_PatchReplacesSections ==
  [][(rnLast' = "patchResponse" /\ rnHandled'[2] = "ok") =>
       /\ rnPatches[rnHandled'[1]].phase = "answered"
       /\ rnSections' = rnPatches[rnHandled'[1]].outcome[6]
       /\ rnError' = rnError]_vars

\* x was excluded while y held an unsaved local text: the page shows the
\* response's sections, in which y has the text the backend holds
C20_Witness ==
  /\ rnLast = "patchResponse"
  /\ rnHandled = <<1, "ok">>
  /\ rnPatches[1].op = [op |-> "exclude", itemId |-> "x", text |-> ""]
  /\ findItem(rnBefore[2], "y").text = "t1"
  /\ ~findItem(rnBefore[2], "x").excluded
  /\ rnSections = <<"list", rnBackend>>
  /\ findItem(rnSections[2], "x").excluded
  /\ findItem(rnSections[2], "y").text = "t0"

\* C21: a local text edit changes the text of the edited item only and
\* issues no request (no patch, no fetch, nothing reaches the backend); when
\* a patch or the page's fetch fails, the error becomes the failure's message
\* and the sections, with the texts typed locally, stay as they were.
C21_LocalEditKeptOnFailure ==
  [][/\ rnLast' = "updateLocalText" =>
          /\ rnPatches' = rnPatches
          /\ rnRefresh' = rnRefresh
          /\ rnBackend' = rnBackend
          /\ itemIdsOf(rnSections'[2]) = itemIdsOf(rnSections[2])
          /\ \E itemId \in itemIdsOf(rnSections[2]) :
               /\ \A other \in itemIdsOf(rnSections[2]) \ {itemId} :
                     findItem(rnSections'[2], other) = findItem(rnSections[2], other)
               /\ findItem(rnSections'[2], itemId).text # findItem(rnSections[2], itemId).text
               /\ findItem(rnSections'[2], itemId) =
                    [findItem(rnSections[2], itemId) EXCEPT
                       !.text = findItem(rnSections'[2], itemId).text]
     /\ (rnLast' \in {"patchResponse", "refreshResponse"} /\ rnHandled'[2] = "throw") =>
          /\ rnError' \in {<<"Failed to fetch">>, <<"500", "Internal Server Error">>}
          /\ rnSections' = rnSections]_vars

\* a save failed while x held a text typed locally that the backend never got
C21_Witness ==
  /\ rnLast = "patchResponse"
  /\ rnHandled = <<1, "throw">>
  /\ rnError = <<"Failed to fetch">>
  /\ rnPatches[1].kind = "save"
  /\ findItem(rnSections[2], "x").text = "t1"
  /\ findItem(rnBackend, "x").text = "t0"
  /\ findItem(rnSections[2], "y").text = "t0"

\* the backend is still regenerating the item of regeneration r, the only
\* regeneration of that item: its status has not left 'regenerating'
neverLeftRegenerating(r) ==
  /\ findItem(rnBackend, rnRegens[r].itemId).status = "regenerating"
  /\ \A q \in 1..Len(rnRegens) : q # r => rnRegens[q].itemId # rnRegens[r].itemId

\* C22: when the 60 s timeout fires on a regeneration that is still polling
\* and whose item never left 'regenerating', the polling stops and the item
\* still shows its Regenerating badge afterwards.
C22_TimeoutKeepsMarker ==
  [][\A r \in 1..Len(rnRegens) :
       (/\ rnLast' = "regenTimeout"
        /\ rnHandled'[1] = r
        /\ rnRegens[r].interval = "active"
        /\ neverLeftRegenerating(r)) =>
         /\ rnRegens'[r].interval # "active"
         /\ badgeShown(rnSections'[2], rnRegenerating', rnRegens[r].itemId)]_vars

\* C28: an item whose regeneration is still being polled is in
\* regeneratingItems, whatever earlier regenerations of it do.
C28_MarkerWhilePolled ==
  \A r \in 1..Len(rnRegens) :
    rnRegens[r].interval = "active" => rnRegens[r].itemId \in rnRegenerating

----------------------------------------------------------------------------
(* Issue detail page *)

C30_NotFoundExcludesError == ~(idNotFound /\ idError # Null)

----------------------------------------------------------------------------
(* Session store: the poll left alone *)

\* the store shows the session as generating with the completed jobs a poll
\* fetched for it
shownGeneratingButDone(id) ==
  /\ stRefreshes = <<>>
  /\ \E n \in 1..Len(stSessions) :
       /\ stSessions[n].id = id
       /\ stSessions[n].status = "generating"
       /\ stSessions[n].jobs = mapJobs(JobsCompleted)

\* the store shows the session with a terminal status and no poll request
\* for its jobs is awaited
pollStoppedFor(id) ==
  /\ \E n \in 1..Len(stSessions) :
       stSessions[n].id = id /\ stSessions[n].status \in {"ready", "exported"}
  /\ \A i \in Indexes(stPolls) :
       \A k \in 1..Len(stPolls[i].req) : stPolls[i].req[k] # id

\* C24: once the backend has finished session A and the store, which shows
\* A as generating, has been told so by a poll, the store eventually shows
\* A with a terminal status and stops requesting A's jobs.
C24_PollStopsAtTerminal ==
  shownGeneratingButDone(SessA) ~> pollStoppedFor(SessA)

\* C25: no two sessions of the store's collection have the same id.
C25_SessionIdsUnique ==
  \A m \in 1..Len(stSessions), n \in 1..Len(stSessions) :
    stSessions[m].id = stSessions[n].id => m = n

\* C26: while the status is 'authenticated' with a user that does not come
\* from disabled access control, a stored auth token is present; a
\* verification that answers after signOut does not sign the user in again.
C26_AuthenticatedHasToken ==
  (/\ status = "authenticated"
   /\ user # Null
   /\ user[2] # ACCESS_CONTROL_DISABLED) =>
     getStoredAuthToken(lsAuthToken, lsLegacyToken) # Null

\* every patch request of the page was applied by the backend and answered
allPatchesApplied ==
  /\ Len(rnPatches) >= 2
  /\ \A i \in 1..Len(rnPatches) :
       /\ rnPatches[i].phase = "done"
       /\ rnPatches[i].outcome[1] = "response"
       /\ rnPatches[i].outcome[2]

\* C27: when the backend applied several patch requests in the order they
\* were issued, then once the last of their responses has arrived, in any
\* order, the local sections are the backend's artifact.
C27_PatchesConverge ==
  (rnLast = "patchResponse" /\ allPatchesApplied) => rnSections = <<"list", rnBackend>>

\* C29: while no product is selected the displayed cluster list is empty; a
\* cluster response requested for an earlier selection is not displayed.
C29_NoProductNoClusters ==
  clProduct = Null => clClusters = <<>>

====
